---- MODULE Spec2Model ----
(***************************************************************************)
(* A model of the concurrency primitives of a-sync:                        *)
(*   - PrioritySemaphore        (a_sync/primitives/locks/prio_semaphore.py)*)
(*   - ProcessingQueue and SmartProcessingQueue (a_sync/primitives/queue.py)*)
(*   - TaskMapping              (a_sync/task.py, known through its tests)  *)
(* Every step of the model is the code a coroutine runs between two        *)
(* suspension points of the event loop.                                    *)
(***************************************************************************)
EXTENDS Integers, Sequences, FiniteSets, TLC

(***************************************************************************)
(* Bounds of the model.                                                    *)
(***************************************************************************)
NumTasks == 3
MaxCapacity == 2
MaxFuts == 3
MaxCms == 2
MaxWorkers == 2
MaxItems == 3
NumCallers == 2
NumKeys == 2
MaxHandles == 2
MaxPuts == 3
MaxN == 3

\* PrioritySemaphore._top_priority
TopPriority == -1

Tasks == 1..NumTasks
Workers == 1..MaxWorkers
Callers == 1..NumCallers
Keys == 1..NumKeys
Priorities == {TopPriority, 1, 5}

VARIABLES
    \* ---- PrioritySemaphore ----
    sem_capacity,            \* _AbstractPrioritySemaphore._capacity
    sem_value,               \* Semaphore._value of the parent
    context_managers,        \* _context_managers: priority -> context manager (0: no entry)
    sem_waiters,             \* parent._waiters: the heap (a list) of context managers
    potential_lost_waiters,  \* _potential_lost_waiters: list of futures
    cms,                     \* every context manager created: [priority, waiters]
    futs,                    \* every waiter future created: its state
    sem_error,               \* the exception a semaphore call ended with ("none")
    pc,                      \* where each caller is: idle / waiting / holding / cancelled
    task_cm,                 \* the context manager (self) of the caller's acquire
    task_fut,                \* the future the caller awaits in acquire
    must_cancel,             \* Task._must_cancel: cancelled after its future was resolved
    ready,                   \* the event loop's ready queue: waiters whose future is done, in order
    wait_order,              \* history: callers inside acquire, in the order they began to wait
    owed                     \* history: <<a, b>>: a and b were both suspended at a release, a first

VARIABLES
    \* ---- ProcessingQueue / SmartProcessingQueue ----
    pq_kind,                 \* "fifo": ProcessingQueue, "smart": SmartProcessingQueue
    pq_no_futs,              \* ProcessingQueue._no_futs (not return_data)
    pq_num_workers,          \* ProcessingQueue.num_workers
    pq_started,              \* the cached property _workers has been computed
    pq_queue,                \* Queue._queue: the items, each [args, fut]
    pq_futs,                 \* every result future created: its state
    pq_smart,                \* for every future: whether it is a SmartFuture
    pq_unfinished,           \* Queue._unfinished_tasks
    pq_worker,               \* where each worker loop is: none / get / run / dead
    pq_cur,                  \* the item (args, kwargs, fut) a worker dequeued last
    pq_outcome,              \* what the running call of func does: return / raise
    pq_subs,                 \* what each submitter passed and got back: [args, handle]
    pq_calls,                \* the arguments of every call of func, in order
    SmartFuture_waiters,     \* SmartFuture._waiters: the set held by the class
    caller_pc,               \* where each awaiting caller is
    caller_fut               \* the future a caller awaits

pq_vars == <<pq_kind, pq_no_futs, pq_num_workers, pq_started, pq_queue, pq_futs,
             pq_smart, pq_unfinished, pq_worker, pq_cur, pq_outcome, pq_subs,
             pq_calls, SmartFuture_waiters, caller_pc, caller_fut>>

VARIABLES
    \* ---- TaskMapping ----
    tm_handle,               \* the entries: key -> cached handle (0: no entry)
    tm_order,                \* the keys of the entries, in insertion order
    tm_handles,              \* every handle created: [key, state, rank]: rank n: the n-th to settle
    tm_returned,             \* for each key, the handles mapping[key] has returned
    tm_map,                  \* the map() in flight: [active, input, pending, pop, yielded]
    tm_caller                \* where each caller of map() is: idle / mapping / exhausted / RuntimeError

tm_vars == <<tm_handle, tm_order, tm_handles, tm_returned, tm_map, tm_caller>>

VARIABLES
    \* ---- Queue (get_all, get_multi, get_multi_nowait) ----
    q_queue,                 \* _queue: the items queued, oldest first
    q_unfinished,            \* _unfinished_tasks
    q_puts,                  \* how many items producers have put (the items are 1, 2, ...)
    q_taken,                 \* how many items another consumer's get_nowait has taken
    q_op,                    \* the call of the consumer: none / get_all / get_multi / get_multi_nowait
    q_pc,                    \* idle / waiting (suspended in get) / woken / returned / failed
    q_n,                     \* the argument i of the call
    q_crl,                   \* the argument can_return_less of the call
    q_result,                \* the list the call returned
    q_error,                 \* the error the call failed with
    q_suspended              \* whether the call has suspended

q_vars == <<q_queue, q_unfinished, q_puts, q_taken, q_op, q_pc, q_n, q_crl, q_result,
            q_error, q_suspended>>

VARIABLES
    \* ---- TaskMapping views ----
    tv_read,                 \* the last synchronous read of a view: [read, items, handle, order]
    tv_iter                  \* the ordered iteration in flight: [active, mode, reverse, start, todo, yielded]

tv_vars == <<tv_read, tv_iter>>

sem_vars == <<sem_capacity, sem_value, context_managers, sem_waiters,
              potential_lost_waiters, cms, futs, sem_error, pc, task_cm,
              task_fut, must_cancel, ready, wait_order, owed>>

vars == <<sem_vars, pq_vars, tm_vars, q_vars, tv_vars>>

\* What a step of one primitive leaves alone: the other primitives.
NotSem == UNCHANGED <<pq_vars, tm_vars, q_vars, tv_vars>>

NotQueue == UNCHANGED <<sem_vars, tm_vars, q_vars, tv_vars>>

NotMapping == UNCHANGED <<sem_vars, pq_vars, q_vars, tv_vars>>

NotViews == UNCHANGED <<sem_vars, pq_vars, q_vars>>

NotPlain == UNCHANGED <<sem_vars, pq_vars, tm_vars, tv_vars>>

(***************************************************************************)
(* heapq, as the code calls it (1-based positions here).  key maps each    *)
(* item to a number such that the items' __lt__ is key[a] < key[b].        *)
(***************************************************************************)
RECURSIVE SiftDown(_, _, _, _, _)
\* heapq._siftdown: move newitem up from pos while it is less than its parent
SiftDown(heap, startpos, pos, newitem, key) ==
    IF pos > startpos /\ key[newitem] < key[heap[pos \div 2]]
    THEN SiftDown([heap EXCEPT ![pos] = heap[pos \div 2]], startpos, pos \div 2, newitem, key)
    ELSE [heap EXCEPT ![pos] = newitem]

RECURSIVE SiftUpLeaf(_, _, _)
\* heapq._siftup, first loop: bubble the smaller child up until hitting a leaf
SiftUpLeaf(heap, pos, key) ==
    LET childpos == 2 * pos
        rightpos == childpos + 1
        c == IF rightpos <= Len(heap) /\ ~(key[heap[childpos]] < key[heap[rightpos]])
             THEN rightpos ELSE childpos
    IN IF childpos > Len(heap) THEN <<heap, pos>>
       ELSE SiftUpLeaf([heap EXCEPT ![pos] = heap[c]], c, key)

\* heapq._siftup
SiftUp(heap, pos, key) ==
    LET newitem == heap[pos]
        r == SiftUpLeaf(heap, pos, key)
    IN SiftDown([r[1] EXCEPT ![r[2]] = newitem], pos, r[2], newitem, key)

\* heapq.heappush
HeapPush(heap, item, key) ==
    SiftDown(Append(heap, item), 1, Len(heap) + 1, item, key)

\* heapq.heappop: the item returned
HeapTop(heap) == heap[1]

\* heapq.heappop: the heap left
HeapPop(heap, key) ==
    IF Len(heap) = 1 THEN <<>>
    ELSE SiftUp([SubSeq(heap, 1, Len(heap) - 1) EXCEPT ![1] = heap[Len(heap)]], 1, key)

RECURSIVE HeapifyFrom(_, _, _)
HeapifyFrom(heap, i, key) ==
    IF i < 1 THEN heap ELSE HeapifyFrom(SiftUp(heap, i, key), i - 1, key)

\* heapq.heapify
Heapify(heap, key) == HeapifyFrom(heap, Len(heap) \div 2, key)

(***************************************************************************)
(* Sequence helpers (list.remove, deque.popleft).                          *)
(***************************************************************************)
InSeq(x, s) == \E i \in 1..Len(s) : s[i] = x

FirstIndex(x, s) == CHOOSE i \in 1..Len(s) : s[i] = x /\ \A j \in 1..(i - 1) : s[j] # x

\* list.remove(x): the list without the first occurrence of x
RemoveFirst(x, s) ==
    LET i == FirstIndex(x, s)
    IN SubSeq(s, 1, i - 1) \o SubSeq(s, i + 1, Len(s))

Tail2(s) == SubSeq(s, 2, Len(s))

Range(seq) == {seq[i] : i \in 1..Len(seq)}

(***************************************************************************)
(* PrioritySemaphore                                                       *)
(***************************************************************************)
\* The fields _wake_up_next and __getitem__ read and write, as one value.
SemState ==
    [heap |-> sem_waiters, map |-> context_managers, cms |-> cms,
     lost |-> potential_lost_waiters, futs |-> futs, err |-> sem_error]

\* __lt__ with the comparison the wrong way round
CmKeyReversed(c) == [m \in DOMAIN c |-> 0 - c[m].priority]

\* _AbstractPrioritySemaphoreContextManager.__lt__: compares the priorities
CmKey(c) == [m \in DOMAIN c |-> c[m].priority]

\* The priority argument of a call: a priority, or None
NoPriority == [given |-> FALSE, value |-> 0]

Given(p) == [given |-> TRUE, value |-> p]

\* __getitem__ with None taken for the last priority instead of the top one
ResolveLast(arg) == IF arg.given THEN arg.value ELSE 5

\* __getitem__, line 86: None stands for the top priority
Resolve(arg) == IF arg.given THEN arg.value ELSE TopPriority

\* The ways to acquire: semaphore[priority] (priority may be None),
\* semaphore.acquire() and async with semaphore
Entries ==
    {[entry |-> "getitem", arg |-> a] : a \in {Given(p) : p \in Priorities} \cup {NoPriority}}
        \cup {[entry |-> n, arg |-> NoPriority] : n \in {"acquire", "aenter"}}

NoPriorityEntries == {e \in Entries : ~e.arg.given}

\* The priority of the context manager an entry point acquires through:
\* acquire() and __aenter__ index the semaphore with _top_priority
EntryPriority(e) ==
    IF e.entry = "getitem" THEN Resolve(e.arg) ELSE Resolve(Given(TopPriority))

\* _AbstractPrioritySemaphore.__getitem__: the context manager of a priority,
\* created, pushed on the heap and entered in the map when the map has none
GetItem(s, priority) ==
    IF s.map[priority] # 0 THEN s
    ELSE LET cm == Len(s.cms) + 1
             c2 == Append(s.cms, [priority |-> priority, waiters |-> <<>>])
         IN [s EXCEPT !.cms = c2,
                      !.heap = HeapPush(s.heap, cm, CmKey(c2)),
                      !.map[priority] = cm]

\* self._context_managers.pop(manager._priority): KeyError when there is no entry
MapPop(s, priority) ==
    IF s.map[priority] = 0 THEN [s EXCEPT !.err = "KeyError"]
    ELSE [s EXCEPT !.map[priority] = 0]

\* The loop over manager._waiters without the test "if not waiter.done()": the
\* first waiter popped counts as woken, cancelled or not
PopWaitersNoDoneCheck(s, manager) ==
    IF s.cms[manager].waiters = <<>> THEN [s |-> s, woke_up |-> FALSE]
    ELSE LET waiter == Head(s.cms[manager].waiters)
             s1 == [s EXCEPT !.cms[manager].waiters = Tail(@)]
         IN IF ~InSeq(waiter, s1.lost)
            THEN [s |-> [s1 EXCEPT !.err = "ValueError"], woke_up |-> FALSE]
            ELSE LET s2 == [s1 EXCEPT !.lost = RemoveFirst(waiter, @)]
                 IN IF s2.futs[waiter] = "pending"
                    THEN [s |-> [s2 EXCEPT !.futs[waiter] = "result"], woke_up |-> TRUE]
                    ELSE [s |-> s2, woke_up |-> TRUE]

RECURSIVE PopWaitersNewest(_, _)
\* The loop over manager._waiters with pop() for popleft(): the newest waiter first
PopWaitersNewest(s, manager) ==
    IF s.cms[manager].waiters = <<>> THEN [s |-> s, woke_up |-> FALSE]
    ELSE LET w == s.cms[manager].waiters
             waiter == w[Len(w)]
             s1 == [s EXCEPT !.cms[manager].waiters = SubSeq(w, 1, Len(w) - 1)]
         IN IF ~InSeq(waiter, s1.lost)
            THEN [s |-> [s1 EXCEPT !.err = "ValueError"], woke_up |-> FALSE]
            ELSE LET s2 == [s1 EXCEPT !.lost = RemoveFirst(waiter, @)]
                 IN IF s2.futs[waiter] = "pending"
                    THEN [s |-> [s2 EXCEPT !.futs[waiter] = "result"], woke_up |-> TRUE]
                    ELSE PopWaitersNewest(s2, manager)

RECURSIVE PopWaiters(_, _)
\* _wake_up_next, the loop over manager._waiters: pop waiters until one is woken
PopWaiters(s, manager) ==
    IF s.cms[manager].waiters = <<>> THEN [s |-> s, woke_up |-> FALSE]
    ELSE LET waiter == Head(s.cms[manager].waiters)
             s1 == [s EXCEPT !.cms[manager].waiters = Tail(@)]
         IN IF ~InSeq(waiter, s1.lost)
            THEN [s |-> [s1 EXCEPT !.err = "ValueError"], woke_up |-> FALSE]
            ELSE LET s2 == [s1 EXCEPT !.lost = RemoveFirst(waiter, @)]
                 IN IF s2.futs[waiter] = "pending"
                    THEN [s |-> [s2 EXCEPT !.futs[waiter] = "result"], woke_up |-> TRUE]
                    ELSE PopWaiters(s2, manager)

\* _wake_up_next without the emergency procedure
LostWaitersNone(s) == s

RECURSIVE LostWaiters(_)
\* _wake_up_next, the emergency procedure: wake the first lost waiter not done
LostWaiters(s) ==
    IF s.lost = <<>> THEN s
    ELSE LET waiter == Head(s.lost)
             s1 == [s EXCEPT !.lost = Tail(@)]
         IN IF s1.futs[waiter] = "pending"
            THEN [s1 EXCEPT !.futs[waiter] = "result"]
            ELSE LostWaiters(s1)

RECURSIVE WakeUpNext(_)
\* _AbstractPrioritySemaphore._wake_up_next
WakeUpNext(s) ==
    IF s.heap = <<>> THEN LostWaiters(s)
    ELSE LET manager == HeapTop(s.heap)
             priority == s.cms[manager].priority
             s1 == [s EXCEPT !.heap = HeapPop(@, CmKey(s.cms))]
             start_len == Len(s1.cms[manager].waiters)
         IN IF start_len = 0
            THEN LET s2 == MapPop(s1, priority)
                 IN IF s2.err # "none" THEN s2 ELSE WakeUpNext(s2)
            ELSE LET r == PopWaiters(s1, manager)
                     end_len == Len(r.s.cms[manager].waiters)
                 IN IF r.s.err # "none" THEN r.s
                    ELSE IF ~r.woke_up
                    THEN LET s2 == MapPop(r.s, priority)
                         IN IF s2.err # "none" THEN s2 ELSE WakeUpNext(s2)
                    ELSE IF ~(start_len > end_len)
                    THEN [r.s EXCEPT !.err = "AssertionError"]
                    ELSE IF end_len > 0
                    THEN [r.s EXCEPT !.heap = HeapPush(@, manager, CmKey(r.s.cms))]
                    ELSE MapPop(r.s, priority)

\* The futures of s that were pending in the state and are done in s, in the
\* order the event loop schedules their callbacks (at most one per call here).
NewlyDone(s) ==
    {f \in 1..Len(futs) : futs[f] = "pending" /\ s.futs[f] # "pending"}

WaiterOf(f) == CHOOSE t \in Tasks : pc[t] = "waiting" /\ task_fut[t] = f

\* call_soon of the callbacks of the futures a call resolved
Schedule(s) ==
    IF NewlyDone(s) = {} THEN ready
    ELSE Append(ready, WaiterOf(CHOOSE f \in NewlyDone(s) : TRUE))

SetSem(s) ==
    /\ sem_waiters' = s.heap
    /\ context_managers' = s.map
    /\ cms' = s.cms
    /\ potential_lost_waiters' = s.lost
    /\ futs' = s.futs
    /\ sem_error' = s.err

\* acquire without the append to _potential_lost_waiters
SuspendUnlisted(s, cm) ==
    [s EXCEPT !.futs = Append(@, "pending"),
              !.cms[cm].waiters = Append(@, Len(s.futs) + 1)]

\* acquire, lines 256-260: create a future, append it to the context manager's
\* waiters and to the lost-waiter list, and suspend on it
Suspend(s, cm) ==
    [s EXCEPT !.futs = Append(@, "pending"),
              !.cms[cm].waiters = Append(@, Len(s.futs) + 1),
              !.lost = Append(@, Len(s.futs) + 1)]

WithoutTask(seq, t) == SelectSeq(seq, LAMBDA x : x # t)

Settled(t) == {pr \in owed : pr[1] # t /\ pr[2] # t}

\* The semaphore as built, for callers that pass the priorities of the set P
SemInitOver(P) ==
    /\ sem_capacity \in 1..MaxCapacity
    /\ sem_value = sem_capacity
    /\ context_managers = [p \in P |-> 0]
    /\ sem_waiters = <<>>
    /\ potential_lost_waiters = <<>>
    /\ cms = <<>>
    /\ futs = <<>>
    /\ sem_error = "none"
    /\ pc = [t \in Tasks |-> "idle"]
    /\ task_cm = [t \in Tasks |-> 0]
    /\ task_fut = [t \in Tasks |-> 0]
    /\ must_cancel = [t \in Tasks |-> FALSE]
    /\ ready = <<>>
    /\ wait_order = <<>>
    /\ owed = {}

SemInit == SemInitOver(Priorities)

\* await semaphore[priority].acquire() with a permit free: take it and return
AcquireNow(t, priority) ==
    /\ pc[t] = "idle"
    /\ context_managers[priority] = 0 => Len(cms) < MaxCms
    /\ sem_value > 0
    /\ SetSem(GetItem(SemState, priority))
    /\ sem_value' = sem_value - 1
    /\ pc' = [pc EXCEPT ![t] = "holding"]
    /\ NotSem
    /\ UNCHANGED <<sem_capacity, task_cm, task_fut, must_cancel, ready, wait_order, owed>>

\* await semaphore[priority].acquire() with no permit free: suspend on a new future
AcquireWait(t, priority) ==
    /\ pc[t] = "idle"
    /\ context_managers[priority] = 0 => Len(cms) < MaxCms
    /\ Len(futs) < MaxFuts
    /\ sem_value <= 0
    /\ LET s == GetItem(SemState, priority)
       IN /\ SetSem(Suspend(s, s.map[priority]))
          /\ task_cm' = [task_cm EXCEPT ![t] = s.map[priority]]
    /\ task_fut' = [task_fut EXCEPT ![t] = Len(futs) + 1]
    /\ pc' = [pc EXCEPT ![t] = "waiting"]
    /\ wait_order' = Append(wait_order, t)
    /\ NotSem
    /\ UNCHANGED <<sem_capacity, sem_value, must_cancel, ready, owed>>

\* The woken waiter takes the permit without testing the value again ("if" for
\* the "while" of acquire)
ResumeTakeUnchecked(t) ==
    /\ ready # <<>> /\ Head(ready) = t
    /\ futs[task_fut[t]] = "result" /\ ~must_cancel[t]
    /\ sem_value' = sem_value - 1
    /\ pc' = [pc EXCEPT ![t] = "holding"]
    /\ ready' = Tail(ready)
    /\ wait_order' = WithoutTask(wait_order, t)
    /\ owed' = Settled(t)
    /\ task_cm' = [task_cm EXCEPT ![t] = 0]
    /\ task_fut' = [task_fut EXCEPT ![t] = 0]
    /\ NotSem
    /\ UNCHANGED <<sem_capacity, context_managers, sem_waiters, potential_lost_waiters,
                   cms, futs, sem_error, must_cancel>>

\* The waiter's future has a result and the waiter runs again: the while loop
\* tests parent._value once more, and either takes the permit ...
ResumeTake(t) ==
    /\ ready # <<>> /\ Head(ready) = t
    /\ futs[task_fut[t]] = "result" /\ ~must_cancel[t]
    /\ sem_value > 0
    /\ sem_value' = sem_value - 1
    /\ pc' = [pc EXCEPT ![t] = "holding"]
    /\ ready' = Tail(ready)
    /\ wait_order' = WithoutTask(wait_order, t)
    /\ owed' = Settled(t)
    /\ task_cm' = [task_cm EXCEPT ![t] = 0]
    /\ task_fut' = [task_fut EXCEPT ![t] = 0]
    /\ NotSem
    /\ UNCHANGED <<sem_capacity, context_managers, sem_waiters, potential_lost_waiters,
                   cms, futs, sem_error, must_cancel>>

\* ... or, the permit being gone again, suspends on a new future of the same
\* context manager (self), whether or not the semaphore still knows it
ResumeWaitAgain(t) ==
    /\ ready # <<>> /\ Head(ready) = t
    /\ futs[task_fut[t]] = "result" /\ ~must_cancel[t]
    /\ sem_value <= 0
    /\ Len(futs) < MaxFuts
    /\ SetSem(Suspend(SemState, task_cm[t]))
    /\ task_fut' = [task_fut EXCEPT ![t] = Len(futs) + 1]
    /\ ready' = Tail(ready)
    /\ NotSem
    /\ UNCHANGED <<sem_capacity, sem_value, pc, task_cm, must_cancel, wait_order, owed>>

\* Task.cancel() of a caller suspended in acquire: a pending future is cancelled
\* (and its callbacks scheduled); with the future already done the task is marked
\* and gets the CancelledError when it runs next
Cancel(t) ==
    /\ pc[t] = "waiting" /\ ~must_cancel[t]
    /\ futs[task_fut[t]] # "cancelled"
    /\ IF futs[task_fut[t]] = "pending"
       THEN /\ futs' = [futs EXCEPT ![task_fut[t]] = "cancelled"]
            /\ ready' = Append(ready, t)
            /\ UNCHANGED must_cancel
       ELSE /\ must_cancel' = [must_cancel EXCEPT ![t] = TRUE]
            /\ UNCHANGED <<futs, ready>>
    /\ wait_order' = WithoutTask(wait_order, t)
    /\ owed' = Settled(t)
    /\ NotSem
    /\ UNCHANGED <<sem_capacity, sem_value, context_managers, sem_waiters,
                   potential_lost_waiters, cms, sem_error, pc, task_cm, task_fut>>

\* The except clause of acquire without the call of _wake_up_next
ResumeCancelledNoForward(t) ==
    /\ ready # <<>> /\ Head(ready) = t
    /\ futs[task_fut[t]] = "cancelled" \/ must_cancel[t]
    /\ ready' = Tail(ready)
    /\ pc' = [pc EXCEPT ![t] = "cancelled"]
    /\ must_cancel' = [must_cancel EXCEPT ![t] = FALSE]
    /\ task_cm' = [task_cm EXCEPT ![t] = 0]
    /\ NotSem
    /\ UNCHANGED <<sem_capacity, sem_value, context_managers, sem_waiters,
                   potential_lost_waiters, cms, futs, sem_error, task_fut,
                   wait_order, owed>>

\* The except clause of acquire, lines 261-266: the cancelled waiter runs again
ResumeCancelled(t) ==
    /\ ready # <<>> /\ Head(ready) = t
    /\ futs[task_fut[t]] = "cancelled" \/ must_cancel[t]
    /\ LET s == IF sem_value > 0 /\ futs[task_fut[t]] # "cancelled"
                THEN WakeUpNext(SemState) ELSE SemState
       IN /\ SetSem(s)
          /\ ready' = Tail(Schedule(s))
    /\ pc' = [pc EXCEPT ![t] = "cancelled"]
    /\ must_cancel' = [must_cancel EXCEPT ![t] = FALSE]
    /\ task_cm' = [task_cm EXCEPT ![t] = 0]
    /\ NotSem
    /\ UNCHANGED <<sem_capacity, sem_value, task_fut, wait_order, owed>>

Suspended(t) == pc[t] = "waiting" /\ futs[task_fut[t]] = "pending"

PriorityOf(t) == cms[task_cm[t]].priority

Before(a, b) == FirstIndex(a, wait_order) < FirstIndex(b, wait_order)

\* a is the non-cancelled waiter that has waited longest at its priority
Oldest(a) ==
    /\ InSeq(a, wait_order)
    /\ \A b \in Tasks :
          (b # a /\ InSeq(b, wait_order) /\ PriorityOf(b) = PriorityOf(a)) => Before(a, b)

\* The pairs of waiters suspended now, the first the oldest of a smaller priority value
SuspendedPairs ==
    {pr \in Tasks \X Tasks :
        /\ Suspended(pr[1]) /\ Suspended(pr[2])
        /\ Oldest(pr[1])
        /\ PriorityOf(pr[1]) < PriorityOf(pr[2])}

\* semaphore[priority].release() by a holder: Semaphore.release increments the
\* value and calls _wake_up_next
Release(t) ==
    /\ pc[t] = "holding"
    /\ sem_value' = sem_value + 1
    /\ LET s == WakeUpNext(SemState)
       IN /\ SetSem(s)
          /\ ready' = Schedule(s)
    /\ pc' = [pc EXCEPT ![t] = "idle"]
    /\ owed' = owed \cup SuspendedPairs
    /\ NotSem
    /\ UNCHANGED <<sem_capacity, task_cm, task_fut, must_cancel, wait_order>>

\* The body raised and the scope is left without a release
ExitRaisedNoRelease(t) ==
    /\ pc[t] = "holding"
    /\ pc' = [pc EXCEPT ![t] = "raised"]
    /\ NotSem
    /\ UNCHANGED <<sem_capacity, sem_value, context_managers, sem_waiters,
                   potential_lost_waiters, cms, futs, sem_error, task_cm, task_fut,
                   must_cancel, ready, wait_order, owed>>

\* async with semaphore[priority]: the body raised; __aexit__ releases as it does
\* after a body that finished, and the error leaves the scope
ExitRaised(t) ==
    /\ pc[t] = "holding"
    /\ sem_value' = sem_value + 1
    /\ LET s == WakeUpNext(SemState)
       IN /\ SetSem(s)
          /\ ready' = Schedule(s)
    /\ pc' = [pc EXCEPT ![t] = "raised"]
    /\ owed' = owed \cup SuspendedPairs
    /\ NotSem
    /\ UNCHANGED <<sem_capacity, task_cm, task_fut, must_cancel, wait_order>>

\* async with semaphore, at the end of the body: __aexit__ indexes the semaphore
\* with _top_priority, which makes a context manager if the mapping has none, and
\* releases through it
ExitSemaphore(t) ==
    /\ pc[t] = "holding"
    /\ context_managers[TopPriority] = 0 => Len(cms) < MaxCms
    /\ sem_value' = sem_value + 1
    /\ LET s == WakeUpNext(GetItem(SemState, Resolve(Given(TopPriority))))
       IN /\ SetSem(s)
          /\ ready' = Schedule(s)
    /\ pc' = [pc EXCEPT ![t] = "idle"]
    /\ owed' = owed \cup SuspendedPairs
    /\ NotSem
    /\ UNCHANGED <<sem_capacity, task_cm, task_fut, must_cancel, wait_order>>

\* _AbstractPrioritySemaphore.locked
Locked ==
    \/ sem_value = 0
    \/ \E p \in Priorities :
          /\ context_managers[p] # 0
          /\ LET w == cms[context_managers[p]].waiters
             IN w # <<>> /\ \E i \in 1..Len(w) : futs[w[i]] # "cancelled"

SemNext ==
    \/ \E t \in Tasks, e \in Entries : AcquireNow(t, EntryPriority(e))
    \/ \E t \in Tasks, e \in Entries : AcquireWait(t, EntryPriority(e))
    \/ \E t \in Tasks : ResumeTake(t)
    \/ \E t \in Tasks : ResumeWaitAgain(t)
    \/ \E t \in Tasks : Cancel(t)
    \/ \E t \in Tasks : ResumeCancelled(t)
    \/ \E t \in Tasks : Release(t)
    \/ \E t \in Tasks : ExitRaised(t)
    \/ \E t \in Tasks : ExitSemaphore(t)


(***************************************************************************)
(* Claims about the PrioritySemaphore                                      *)
(***************************************************************************)
\* Numeric priorities on both sides of the top priority: PrioritySemaphore takes
\* any number
NumericPriorities == {-2, 1}

\* What the callers pass: no priority, or one of those
NumericArgs == {NoPriority} \cup {Given(p) : p \in NumericPriorities}

\* The semaphore used that way
NumericNext ==
    \/ \E t \in Tasks, a \in NumericArgs : AcquireNow(t, Resolve(a))
    \/ \E t \in Tasks, a \in NumericArgs : AcquireWait(t, Resolve(a))
    \/ \E t \in Tasks : ResumeTake(t)
    \/ \E t \in Tasks : ResumeWaitAgain(t)
    \/ \E t \in Tasks : Cancel(t)
    \/ \E t \in Tasks : ResumeCancelled(t)
    \/ \E t \in Tasks : Release(t)

Holders == {t \in Tasks : pc[t] = "holding"}

Obtains(t) == pc[t] = "waiting" /\ pc'[t] = "holding"

\* C1: priority fairness.  If a waiter a at priority p1 and a waiter b at
\* priority p2 > p1 were both suspended when a permit was released, a being the
\* oldest waiter at p1, then b does not obtain a permit while a is still waiting.
PriorityFairness ==
    [][\A pr \in owed : ~Obtains(pr[2])]_vars

\* C2: FIFO within a priority.  Of two waiters at the same priority value, the
\* one that began to wait later does not obtain a permit while the earlier one
\* is still waiting.
FifoWithinPriority ==
    [][\A a \in Tasks, b \in Tasks :
          (/\ a # b /\ InSeq(a, wait_order) /\ InSeq(b, wait_order)
           /\ PriorityOf(a) = PriorityOf(b) /\ Before(a, b))
          => ~Obtains(b)]_vars

\* C3: capacity bound.  With release called only by holders, the number of
\* holders is at most the capacity and the value is the capacity minus the
\* number of holders, hence never negative.
CapacityBound ==
    /\ Cardinality(Holders) <= sem_capacity
    /\ sem_value = sem_capacity - Cardinality(Holders)
    /\ sem_value >= 0

\* C3 witness: every permit is held while a woken waiter, whose permit another
\* caller took, is about to test the value again.
CapacityBoundWitness ==
    /\ Cardinality(Holders) = sem_capacity
    /\ \E t \in Tasks : pc[t] = "waiting" /\ futs[task_fut[t]] = "result"

\* C7: permit forwarding.  When a waiter whose future a release has resolved is
\* cancelled before it ran, its except clause leaves the value as it was, and if
\* the permit is still free and another waiter is suspended, wakes one.
PermitForwarded ==
    [][\A t \in Tasks :
          (/\ pc[t] = "waiting" /\ futs[task_fut[t]] = "result" /\ must_cancel[t]
           /\ pc'[t] = "cancelled")
          => /\ sem_value' = sem_value
             /\ (sem_value > 0 /\ \E u \in Tasks : Suspended(u))
                  => \E u \in Tasks : Suspended(u) /\ futs'[task_fut[u]] = "result"]_vars

\* C7 witness: a waiter was cancelled after its future got a result, the permit
\* is free and another waiter has been woken.
PermitForwardedWitness ==
    \E t \in Tasks, u \in Tasks :
        /\ pc[t] = "cancelled" /\ futs[task_fut[t]] = "result"
        /\ pc[u] = "waiting" /\ futs[task_fut[u]] = "result"
        /\ sem_value > 0 /\ Holders = {}
        /\ sem_capacity = 1

\* C8: cancelling a suspended waiter that was not woken changes neither the
\* value nor any other future, neither when the cancellation is requested nor
\* when the waiter runs its except clause; a cancelled future is never resolved
\* afterwards, and a release made while a waiter is suspended wakes a suspended
\* waiter (the wake-up is not spent on a cancelled one).
CancelSuspendedFrame ==
    [][/\ \A t \in Tasks :
             (Suspended(t) /\ futs'[task_fut[t]] = "cancelled")
             => /\ sem_value' = sem_value
                /\ \A f \in 1..Len(futs) : f # task_fut[t] => futs'[f] = futs[f]
       /\ \A t \in Tasks :
             (pc[t] = "waiting" /\ futs[task_fut[t]] = "cancelled" /\ pc'[t] = "cancelled")
             => sem_value' = sem_value /\ futs' = futs
       /\ \A f \in 1..Len(futs) : futs[f] = "cancelled" => futs'[f] = "cancelled"
       /\ \A t \in Tasks :
             (pc[t] = "holding" /\ pc'[t] = "idle" /\ \E u \in Tasks : Suspended(u))
             => \E u \in Tasks : Suspended(u) /\ futs'[task_fut[u]] = "result"]_vars

\* C8 witness: a release has discarded a cancelled waiter (it is in no list any
\* more) and woken a waiter behind it.
CancelSuspendedWitness ==
    \E t \in Tasks, u \in Tasks :
        /\ pc[t] = "cancelled" /\ futs[task_fut[t]] = "cancelled"
        /\ ~InSeq(task_fut[t], potential_lost_waiters)
        /\ pc[u] = "waiting" /\ futs[task_fut[u]] = "result"
        /\ task_fut[t] < task_fut[u]

\* C17: locked() is true whenever the value is 0 or a caller is suspended on a
\* future that is not cancelled, at whatever priority.
LockedWhenBusy ==
    (sem_value = 0 \/ \E t \in Tasks : Suspended(t)) => Locked

\* C18: scoped acquisition.  Leaving the scope, the body finished or raised,
\* releases exactly once (the value rises by one); a caller cancelled in acquire
\* releases nothing; so with every scope left the value is the capacity.
ScopedRelease ==
    /\ [][\A t \in Tasks :
             (pc[t] = "holding" /\ pc'[t] \in {"idle", "raised"})
             => sem_value' = sem_value + 1]_vars
    /\ [][\A t \in Tasks :
             (pc[t] = "waiting" /\ pc'[t] = "cancelled") => sem_value' = sem_value]_vars
    /\ []((\A t \in Tasks : pc[t] \in {"idle", "raised", "cancelled"})
             => sem_value = sem_capacity)

\* C18 witness: one scope was left by an error, one caller was cancelled in
\* acquire, nobody holds or waits, and the value is the capacity
ScopedReleaseWitness ==
    /\ \E t \in Tasks, u \in Tasks : pc[t] = "raised" /\ pc[u] = "cancelled"
    /\ \A t \in Tasks : pc[t] \in {"idle", "raised", "cancelled"}
    /\ sem_value = sem_capacity

\* The state of the scenario before the release: capacity 1, h holds the permit,
\* a suspended at priority 5 and then b at priority 1, nothing else waiting
ScenarioHeld(h, a, b) ==
    /\ sem_capacity = 1 /\ pc[h] = "holding"
    /\ wait_order = <<a, b>> /\ ready = <<>>
    /\ \A t \in Tasks \ {a, b} : pc[t] # "waiting"
    /\ Suspended(a) /\ Suspended(b)
    /\ PriorityOf(a) = 5 /\ PriorityOf(b) = 1
    /\ context_managers[5] = task_cm[a] /\ context_managers[1] = task_cm[b]
    /\ InSeq(task_cm[a], sem_waiters) /\ InSeq(task_cm[b], sem_waiters)
    /\ cms[task_cm[a]].waiters = <<task_fut[a]>>
    /\ cms[task_cm[b]].waiters = <<task_fut[b]>>
    /\ potential_lost_waiters = <<task_fut[a], task_fut[b]>>

\* The state of the scenario after the release: b is woken, a is suspended
ScenarioReleased(a, b) ==
    /\ sem_capacity = 1 /\ sem_value = 1
    /\ pc[b] = "waiting" /\ futs[task_fut[b]] = "result" /\ ~must_cancel[b]
    /\ ready = <<b>>
    /\ Suspended(a) /\ PriorityOf(a) = 5 /\ PriorityOf(b) = 1

\* C19: in the scenario a single release wakes the priority-1 waiter and leaves
\* the priority-5 waiter suspended; the woken waiter, when it runs, takes the
\* permit unless another acquire took it, and the priority-5 waiter does not.
ScenarioPriorityOne ==
    /\ [][\A h \in Tasks, a \in Tasks, b \in Tasks :
             (ScenarioHeld(h, a, b) /\ pc'[h] # "holding")
             => ScenarioReleased(a, b)']_vars
    /\ [][\A a \in Tasks, b \in Tasks :
             ScenarioReleased(a, b)
             => /\ ~Obtains(a)
                /\ (pc'[b] # "waiting" /\ Holders' \subseteq {b})
                      => (pc'[b] = "holding" /\ Suspended(a)')]_vars

\* C19 witness: the two waiters are the only ones there ever were, the release
\* was made and the priority-1 waiter, which came second, is woken
ScenarioPriorityOneWitness ==
    \E a \in Tasks, b \in Tasks :
        /\ ScenarioReleased(a, b)
        /\ Len(futs) = 2 /\ task_fut[a] = 1 /\ task_fut[b] = 2
        /\ Holders = {}

WakeUpPending(t) == pc[t] = "waiting" /\ futs[task_fut[t]] = "result"

\* t waits on a context manager the semaphore no longer has in its mapping
Orphaned(t) == pc[t] = "waiting" /\ context_managers[PriorityOf(t)] # task_cm[t]

\* Task.cancel() was called on t while it was in acquire
CancelRequested(t) ==
    \/ pc[t] = "cancelled"
    \/ pc[t] = "waiting" /\ (must_cancel[t] \/ futs[task_fut[t]] = "cancelled")

Acquires == \E t \in Tasks, e \in Entries :
                AcquireNow(t, EntryPriority(e)) \/ AcquireWait(t, EntryPriority(e))

\* C29: no lost wake-up.  Whenever a permit is free and a waiter that was not
\* cancelled is suspended, in a registered context manager or in an orphaned
\* one, a wake-up is pending for some waiter; and when no holder holds for ever
\* and the acquires stop, every waiter is cancelled or obtains a permit in the
\* end.
NoLostWakeUp ==
    /\ []((sem_value > 0 /\ \E t \in Tasks : Suspended(t))
            => \E u \in Tasks : WakeUpPending(u))
    /\ ((\A t \in Tasks : []<>(pc[t] # "holding")) /\ <>[][~Acquires]_vars)
          => \A t \in Tasks : (pc[t] = "waiting") ~> (pc[t] = "holding" \/ CancelRequested(t))

\* C29 witness: a permit is free, an orphaned waiter is suspended and the
\* wake-up pending is for a waiter of a registered context manager
NoLostWakeUpWitness ==
    /\ sem_value > 0
    /\ \E t \in Tasks, u \in Tasks :
          /\ Suspended(t) /\ Orphaned(t)
          /\ WakeUpPending(u) /\ ~must_cancel[u]

\* C31: the waiter state machine.  A waiter moves from pending to granted (woken
\* with a permit free) or to cancelled; a caller that a release has woken and
\* that was not cancelled takes the permit, and is never suspended again.
GrantedIsTerminal ==
    /\ [][\A t \in Tasks : (Suspended(t) /\ WakeUpPending(t)') => sem_value' > 0]_vars
    /\ [][\A t \in Tasks : (WakeUpPending(t) /\ ~must_cancel[t]) => ~Suspended(t)']_vars

\* The context manager c is in the mapping and on the heap of the semaphore
Registered(c) == context_managers[cms[c].priority] = c /\ InSeq(c, sem_waiters)

\* The futures in the waiters of c that are not done
Unfinished(c) == {i \in 1..Len(cms[c].waiters) : futs[cms[c].waiters[i]] = "pending"}

\* C32: bucket existence.  A context manager is in the mapping and on the heap
\* if and only if it has a waiter that is not done.
BucketExistence ==
    \A c \in 1..Len(cms) : Registered(c) <=> Unfinished(c) # {}

\* The context managers on the heap that have a waiter that is not done
LiveBuckets == {c \in 1..Len(cms) : InSeq(c, sem_waiters) /\ Unfinished(c) # {}}

\* The one of them with the lowest priority value
LowestLive ==
    CHOOSE c \in LiveBuckets : \A d \in LiveBuckets : cms[c].priority <= cms[d].priority

\* The position of the oldest waiter of c that is not done
OldestUnfinished(c) == CHOOSE i \in Unfinished(c) : \A j \in Unfinished(c) : i <= j

\* The futures a step gives their result
Woken == {f \in 1..Len(futs) : futs[f] = "pending" /\ futs'[f] = "result"}

\* A holder releases: release(), or the end of a scope
ReleaseStep == \E t \in Tasks : pc[t] = "holding" /\ pc'[t] # "holding"

\* C33: the wake-up step of release.  A release adds one to the value and wakes
\* at most one waiter: the oldest waiter not done of the context manager with
\* the lowest priority value among those on the heap that have one.  The
\* waiters before it (cancelled) are dropped, the context managers popped on
\* the way are removed, the one served is pushed back if and only if waiters
\* remain, and the ones behind it are left alone.  When no context manager on
\* the heap has such a waiter the heap is emptied, none of their waiters is
\* woken and the value stays positive.
WakeUpStep ==
    [][ReleaseStep =>
         /\ sem_value' = sem_value + 1
         /\ sem_error' = "none"
         /\ Cardinality(Woken) <= 1
         /\ IF LiveBuckets # {}
            THEN LET c == LowestLive
                     k == OldestUnfinished(c)
                     rest == SubSeq(cms[c].waiters, k + 1, Len(cms[c].waiters))
                 IN /\ Woken = {cms[c].waiters[k]}
                    /\ cms'[c].waiters = rest
                    /\ InSeq(c, sem_waiters') <=> rest # <<>>
                    /\ context_managers'[cms[c].priority] = c <=> rest # <<>>
                    /\ \A d \in 1..Len(cms) :
                          (InSeq(d, sem_waiters) /\ cms[d].priority < cms[c].priority)
                             => /\ ~InSeq(d, sem_waiters')
                                /\ context_managers'[cms[d].priority] # d
                    /\ \A d \in 1..Len(cms) :
                          (InSeq(d, sem_waiters) /\ cms[d].priority > cms[c].priority)
                             => /\ InSeq(d, sem_waiters')
                                /\ context_managers'[cms[d].priority] = d
                                /\ cms'[d] = cms[d]
            ELSE /\ sem_waiters' = <<>>
                 /\ context_managers' = [p \in Priorities |-> 0]
                 /\ \A c \in 1..Len(cms) :
                       InSeq(c, sem_waiters)
                          => \A i \in 1..Len(cms[c].waiters) : cms[c].waiters[i] \notin Woken
                 /\ sem_value' > 0]_vars

\* C33 witness: a scope was left, which released; the cancelled waiter in front
\* was dropped from the lists, the waiter behind it was woken, and their
\* context manager, left without waiters, is gone from the heap
WakeUpStepWitness ==
    \E t \in Tasks, w \in Tasks, u \in Tasks :
        /\ pc[t] = "raised"
        /\ task_fut[w] # 0 /\ futs[task_fut[w]] = "cancelled"
        /\ ~InSeq(task_fut[w], potential_lost_waiters)
        /\ WakeUpPending(u) /\ task_fut[w] < task_fut[u]
        /\ sem_value > 0 /\ sem_waiters = <<>>

\* acquire, line 253: with _value > 0 the while loop is skipped and acquire
\* returns without suspending
ReturnsAtOnce == sem_value > 0

\* C34: locked() is False if and only if an acquire issued now would return
\* without suspending.
LockedIffAcquireWaits ==
    ~Locked <=> ReturnsAtOnce

\* C36: the default priority is the top priority.  A release does not wake a
\* waiter that gave a priority other than the default while a waiter that
\* gave none is suspended, whatever number the priority given is.
DefaultServedFirst ==
    [][\A a \in Tasks, b \in Tasks :
          (/\ ReleaseStep
           /\ Suspended(a) /\ PriorityOf(a) = Resolve(NoPriority)
           /\ Suspended(b) /\ PriorityOf(b) # Resolve(NoPriority))
          => task_fut[b] \notin Woken]_vars

\* The context managers the mapping holds
Mapped == {context_managers[p] : p \in DOMAIN context_managers} \ {0}

\* C38: release never fails with an internal error.  No semaphore call has
\* ended with KeyError, ValueError or AssertionError; the heap and the mapping
\* hold the same context managers, each once and at most one per priority, each
\* under its own priority; and every waiter of a context manager on the heap is
\* in the lost-waiter list.
ReleaseNeverFails ==
    /\ sem_error = "none"
    /\ Range(sem_waiters) = Mapped
    /\ \A i \in 1..Len(sem_waiters), j \in 1..Len(sem_waiters) :
          i # j => cms[sem_waiters[i]].priority # cms[sem_waiters[j]].priority
    /\ \A c \in Mapped : context_managers[cms[c].priority] = c
    /\ \A c \in Range(sem_waiters) :
          \A i \in 1..Len(cms[c].waiters) : InSeq(cms[c].waiters[i], potential_lost_waiters)

\* C38 witness: a scope was left, which released; the release popped the one
\* registered context manager and woke its waiter, whose future left the
\* lost-waiter list, while the future of an orphaned waiter is still in it
ReleaseNeverFailsWitness ==
    /\ sem_error = "none"
    /\ \E t \in Tasks, b \in Tasks, c \in Tasks :
          /\ pc[t] = "raised"
          /\ Suspended(b) /\ Orphaned(b) /\ InSeq(task_fut[b], potential_lost_waiters)
          /\ WakeUpPending(c) /\ ~InSeq(task_fut[c], potential_lost_waiters)
          /\ ~Registered(task_cm[c])

(***************************************************************************)
(* ProcessingQueue and SmartProcessingQueue                                *)
(***************************************************************************)
NoItem == [args |-> [sub |-> 0, bad |-> FALSE, wrapped |-> FALSE], fut |-> 0]

\* SmartFuture.num_waiters: len(self._waiters); _waiters is the set of the class,
\* which no instance replaces, so the future asked does not matter
NumWaiters(fut) == Cardinality(SmartFuture_waiters)

\* SmartFuture.__lt__: self.num_waiters > other.num_waiters.  The items of the
\* heap are tuples (fut, args, kwargs), whose comparison is decided by the futures.
SmartKey(heap) == [it \in Range(heap) |-> 0 - NumWaiters(it.fut)]

\* A queue that puts the new item in front of the others
QueuePutFront(queue, item) == <<item>> \o queue

\* Queue._put: deque.append, or for the smart queue _PriorityQueueMixin._put: heappush
QueuePut(queue, item) ==
    IF pq_kind = "smart" THEN HeapPush(queue, item, SmartKey(Append(queue, item)))
    ELSE Append(queue, item)

\* _VariablePriorityQueueMixin._get, line 220: heapify before the pop
Resorted(queue) == Heapify(queue, SmartKey(queue))

\* Queue._get: the item returned: deque.popleft, or for the smart queue heappop
\* of the heap sorted again
QueueGetItem(queue) ==
    IF pq_kind = "smart" THEN HeapTop(Resorted(queue)) ELSE Head(queue)

\* Queue._get: the queue left
QueueGetRest(queue) ==
    IF pq_kind = "smart" THEN HeapPop(Resorted(queue), SmartKey(queue)) ELSE Tail(queue)

\* the cached property _workers: num_workers worker loops, started once
StartWorkers ==
    /\ pq_started' = TRUE
    /\ pq_worker' = IF pq_started THEN pq_worker
                    ELSE [w \in Workers |-> IF w <= pq_num_workers THEN "get" ELSE "none"]

PqInit(kind) ==
    /\ pq_kind = kind
    /\ pq_no_futs \in (IF kind = "smart" THEN {FALSE} ELSE BOOLEAN)
    /\ pq_num_workers \in 1..MaxWorkers
    /\ pq_started = FALSE
    /\ pq_queue = <<>>
    /\ pq_futs = <<>>
    /\ pq_smart = <<>>
    /\ pq_unfinished = 0
    /\ pq_worker = [w \in Workers |-> "none"]
    /\ pq_cur = [w \in Workers |-> NoItem]
    /\ pq_outcome = [w \in Workers |-> "none"]
    /\ pq_subs = <<>>
    /\ pq_calls = <<>>
    /\ SmartFuture_waiters = {}
    /\ caller_pc = [c \in Callers |-> "idle"]
    /\ caller_fut = [c \in Callers |-> 0]

\* ProcessingQueue.put_nowait / SmartProcessingQueue.put_nowait: start the
\* workers, create the future (unless _no_futs), enqueue, return the future
PutNowait(bad) ==
    /\ Len(pq_subs) < MaxItems
    /\ StartWorkers
    /\ LET args == [sub |-> Len(pq_subs) + 1, bad |-> bad, wrapped |-> FALSE]
           fut == IF pq_no_futs THEN 0 ELSE Len(pq_futs) + 1
       IN /\ pq_futs' = IF pq_no_futs THEN pq_futs ELSE Append(pq_futs, "pending")
          /\ pq_smart' = IF pq_no_futs THEN pq_smart ELSE Append(pq_smart, pq_kind = "smart")
          /\ pq_queue' = QueuePut(pq_queue, [args |-> args, fut |-> fut])
          /\ pq_subs' = Append(pq_subs, [args |-> args, handle |-> fut])
    /\ pq_unfinished' = pq_unfinished + 1
    /\ NotQueue
    /\ UNCHANGED <<pq_kind, pq_no_futs, pq_num_workers, pq_cur, pq_outcome, pq_calls,
                   SmartFuture_waiters, caller_pc, caller_fut>>

\* ProcessingQueue.put: creates the future it returns and awaits
\* asyncio.Queue.put, which ends with self.put_nowait(item): that is
\* ProcessingQueue.put_nowait again, with the tuple (args, kwargs, fut) as its
\* one argument and a second future of its own in the item enqueued
PutFifo(bad) ==
    /\ pq_kind = "fifo"
    /\ Len(pq_subs) < MaxItems
    /\ StartWorkers
    /\ LET args == [sub |-> Len(pq_subs) + 1, bad |-> bad, wrapped |-> FALSE]
           inner == [args EXCEPT !.wrapped = TRUE]
       IN IF pq_no_futs
          THEN /\ pq_queue' = QueuePut(pq_queue, [args |-> inner, fut |-> 0])
               /\ pq_subs' = Append(pq_subs, [args |-> args, handle |-> 0])
               /\ UNCHANGED <<pq_futs, pq_smart>>
          ELSE /\ pq_futs' = pq_futs \o <<"pending", "pending">>
               /\ pq_smart' = pq_smart \o <<FALSE, FALSE>>
               /\ pq_queue' = QueuePut(pq_queue, [args |-> inner, fut |-> Len(pq_futs) + 2])
               /\ pq_subs' = Append(pq_subs, [args |-> args, handle |-> Len(pq_futs) + 1])
    /\ pq_unfinished' = pq_unfinished + 1
    /\ NotQueue
    /\ UNCHANGED <<pq_kind, pq_no_futs, pq_num_workers, pq_cur, pq_outcome, pq_calls,
                   SmartFuture_waiters, caller_pc, caller_fut>>

\* SmartProcessingQueue.put: creates a plain future and awaits Queue.put(self,
\* item), whose body returns the coroutine of asyncio.Queue.put without awaiting
\* it: nothing is enqueued
PutSmart(bad) ==
    /\ pq_kind = "smart"
    /\ Len(pq_subs) < MaxItems
    /\ StartWorkers
    /\ pq_futs' = Append(pq_futs, "pending")
    /\ pq_smart' = Append(pq_smart, FALSE)
    /\ pq_subs' = Append(pq_subs, [args |-> [sub |-> Len(pq_subs) + 1, bad |-> bad,
                                             wrapped |-> FALSE],
                                   handle |-> Len(pq_futs) + 1])
    /\ NotQueue
    /\ UNCHANGED <<pq_kind, pq_no_futs, pq_num_workers, pq_queue, pq_unfinished, pq_cur,
                   pq_outcome, pq_calls, SmartFuture_waiters, caller_pc, caller_fut>>

\* _worker_coro: await self.get() returns an item and func is called with its
\* arguments.  func is the user's: it raises on the arguments marked bad, and may
\* do either on a tuple it was never meant to get.
WorkerGet(w) ==
    /\ pq_worker[w] = "get"
    /\ pq_queue # <<>>
    /\ LET item == QueueGetItem(pq_queue)
       IN /\ pq_cur' = [pq_cur EXCEPT ![w] = item]
          /\ pq_calls' = Append(pq_calls, item.args)
          /\ \E o \in {"return", "raise"} :
                /\ ~item.args.wrapped => (o = "raise") = item.args.bad
                /\ pq_outcome' = [pq_outcome EXCEPT ![w] = o]
    /\ pq_queue' = QueueGetRest(pq_queue)
    /\ pq_worker' = [pq_worker EXCEPT ![w] = "run"]
    /\ NotQueue
    /\ UNCHANGED <<pq_kind, pq_no_futs, pq_num_workers, pq_started, pq_futs, pq_smart,
                   pq_unfinished, pq_subs, SmartFuture_waiters, caller_pc, caller_fut>>

\* _worker_coro, after func: fut.set_result(value), or in the except clause
\* fut.set_result(e); set_result on a future that is not pending raises
\* InvalidStateError, an Exception: from the try it leads to the except clause,
\* whose set_result raises it again, out of the loop.  Then self.task_done().
WorkerFinish(w) ==
    /\ pq_worker[w] = "run"
    /\ LET fut == pq_cur[w].fut
       IN IF pq_no_futs
          THEN /\ pq_unfinished' = pq_unfinished - 1
               /\ pq_worker' = [pq_worker EXCEPT ![w] = "get"]
               /\ UNCHANGED pq_futs
          ELSE IF pq_futs[fut] = "pending"
          THEN /\ pq_futs' = [pq_futs EXCEPT ![fut] =
                                 IF pq_outcome[w] = "raise" THEN "error" ELSE "value"]
               /\ pq_unfinished' = pq_unfinished - 1
               /\ pq_worker' = [pq_worker EXCEPT ![w] = "get"]
          ELSE /\ pq_worker' = [pq_worker EXCEPT ![w] = "dead"]
               /\ UNCHANGED <<pq_futs, pq_unfinished>>
    /\ pq_outcome' = [pq_outcome EXCEPT ![w] = "none"]
    /\ NotQueue
    /\ UNCHANGED <<pq_kind, pq_no_futs, pq_num_workers, pq_started, pq_queue, pq_smart,
                   pq_cur, pq_subs, pq_calls, SmartFuture_waiters, caller_pc, caller_fut>>

Handles == {pq_subs[i].handle : i \in 1..Len(pq_subs)} \ {0}

\* The submitter cancels the handle it got (Future.cancel)
CancelHandle(fut) ==
    /\ fut \in Handles
    /\ pq_futs[fut] = "pending"
    /\ pq_futs' = [pq_futs EXCEPT ![fut] = "cancelled"]
    /\ NotQueue
    /\ UNCHANGED <<pq_kind, pq_no_futs, pq_num_workers, pq_started, pq_queue, pq_smart,
                   pq_unfinished, pq_worker, pq_cur, pq_outcome, pq_subs, pq_calls,
                   SmartFuture_waiters, caller_pc, caller_fut>>

\* Future.result() of a future that is done, as the awaiting caller gets it: the
\* worker resolved the future with set_result in both cases, so the value and
\* the error object alike are returned; a cancelled future raises CancelledError
FutureResult(fut) ==
    CASE pq_futs[fut] = "value" -> "returned value"
      [] pq_futs[fut] = "error" -> "returned error"
      [] pq_futs[fut] = "cancelled" -> "raised CancelledError"

\* await handle by a caller task.  SmartFuture.__await__: a future that is done
\* returns at once; otherwise the task is added to _waiters and suspends.
Await(c, fut) ==
    /\ caller_pc[c] = "idle"
    /\ fut \in Handles
    /\ IF pq_futs[fut] # "pending"
       THEN /\ caller_pc' = [caller_pc EXCEPT ![c] = FutureResult(fut)]
            /\ UNCHANGED SmartFuture_waiters
       ELSE /\ caller_pc' = [caller_pc EXCEPT ![c] = "awaiting"]
            /\ SmartFuture_waiters' = IF pq_smart[fut] THEN SmartFuture_waiters \cup {c}
                                      ELSE SmartFuture_waiters
    /\ caller_fut' = [caller_fut EXCEPT ![c] = fut]
    /\ NotQueue
    /\ UNCHANGED <<pq_kind, pq_no_futs, pq_num_workers, pq_started, pq_queue, pq_futs,
                   pq_smart, pq_unfinished, pq_worker, pq_cur, pq_outcome, pq_subs, pq_calls>>

\* SmartFuture.__await__, after the yield: the future is done, the task is
\* removed from _waiters and gets the result
AwaitReturns(c) ==
    /\ caller_pc[c] = "awaiting"
    /\ pq_futs[caller_fut[c]] # "pending"
    /\ caller_pc' = [caller_pc EXCEPT ![c] = FutureResult(caller_fut[c])]
    /\ SmartFuture_waiters' = IF pq_smart[caller_fut[c]] THEN SmartFuture_waiters \ {c}
                              ELSE SmartFuture_waiters
    /\ NotQueue
    /\ UNCHANGED <<pq_kind, pq_no_futs, pq_num_workers, pq_started, pq_queue, pq_futs,
                   pq_smart, pq_unfinished, pq_worker, pq_cur, pq_outcome, pq_subs,
                   pq_calls, caller_fut>>

\* Task.cancel() of a caller suspended in await handle: the future it awaits is
\* cancelled and CancelledError is thrown in at the yield, so that the line
\* after it, self._waiters.remove(current_task), does not run
CancelCaller(c) ==
    /\ caller_pc[c] = "awaiting"
    /\ pq_futs[caller_fut[c]] = "pending"
    /\ pq_futs' = [pq_futs EXCEPT ![caller_fut[c]] = "cancelled"]
    /\ caller_pc' = [caller_pc EXCEPT ![c] = "cancelled"]
    /\ NotQueue
    /\ UNCHANGED <<pq_kind, pq_no_futs, pq_num_workers, pq_started, pq_queue, pq_smart,
                   pq_unfinished, pq_worker, pq_cur, pq_outcome, pq_subs, pq_calls,
                   SmartFuture_waiters, caller_fut>>

QueueNext ==
    \/ \E bad \in BOOLEAN : PutNowait(bad)
    \/ \E bad \in BOOLEAN : PutFifo(bad)
    \/ \E w \in Workers : WorkerGet(w)
    \/ \E w \in Workers : WorkerFinish(w)
    \/ \E f \in 1..Len(pq_futs) : CancelHandle(f)

SmartNext ==
    \/ \E bad \in BOOLEAN : PutNowait(bad)
    \/ \E bad \in BOOLEAN : PutSmart(bad)
    \/ \E w \in Workers : WorkerGet(w)
    \/ \E w \in Workers : WorkerFinish(w)
    \/ \E c \in Callers, f \in 1..Len(pq_futs) : Await(c, f)
    \/ \E c \in Callers : AwaitReturns(c)
    \/ \E c \in Callers : CancelCaller(c)

(***************************************************************************)
(* PriorityProcessingQueue.  An item of its heap is the tuple that         *)
(* ProcessingQueue.put_nowait builds around what it was handed:            *)
(*   ((self, (priority, args, kwargs, fut)), {}, fut2)   from put_nowait   *)
(*   ((self, (item, (), {}, fut3)), {}, fut4)            from put          *)
(* (without the last future when _no_futs).  The model keeps of it the     *)
(* submission (sub: its arguments are the tuple (sub,)), the priority and   *)
(* the entry point that built it (shape).                                  *)
(***************************************************************************)
ItemPriorities == {1, 2}

\* tuple.__lt__ on two items: decided by (priority, args) when both have the same
\* shape; otherwise it ends comparing an int with a tuple: TypeError
Comparable(a, b) == a.args.shape = b.args.shape

PriorityLt(a, b) ==
    \/ a.args.priority < b.args.priority
    \/ a.args.priority = b.args.priority /\ a.args.sub < b.args.sub

RECURSIVE PrioritySiftDown(_, _, _)
\* _heapq siftdown: swap the item at pos with its parent while it is less; a
\* comparison that raises leaves the list as it is by then
PrioritySiftDown(heap, startpos, pos) ==
    LET parentpos == pos \div 2
    IN IF pos <= startpos THEN [heap |-> heap, ok |-> TRUE]
       ELSE IF ~Comparable(heap[pos], heap[parentpos]) THEN [heap |-> heap, ok |-> FALSE]
       ELSE IF PriorityLt(heap[pos], heap[parentpos])
       THEN PrioritySiftDown([heap EXCEPT ![pos] = heap[parentpos],
                                          ![parentpos] = heap[pos]], startpos, parentpos)
       ELSE [heap |-> heap, ok |-> TRUE]

RECURSIVE PrioritySiftUp(_, _, _)
\* _heapq siftup: bubble the smaller child up to a leaf, then siftdown
PrioritySiftUp(heap, startpos, pos) ==
    LET childpos == 2 * pos
        rightpos == childpos + 1
        c == IF rightpos <= Len(heap) /\ ~PriorityLt(heap[childpos], heap[rightpos])
             THEN rightpos ELSE childpos
    IN IF childpos > Len(heap) THEN PrioritySiftDown(heap, startpos, pos)
       ELSE IF rightpos <= Len(heap) /\ ~Comparable(heap[childpos], heap[rightpos])
       THEN [heap |-> heap, ok |-> FALSE]
       ELSE PrioritySiftUp([heap EXCEPT ![pos] = heap[c], ![c] = heap[pos]], startpos, c)

\* _PriorityQueueMixin._put: heappush appends the item, then sifts it
PriorityPut(heap, item) ==
    PrioritySiftDown(Append(heap, item), 1, Len(heap) + 1)

\* _PriorityQueueMixin._get's heappop: the last item replaces the first, which
\* is returned unless the sift raises
PriorityPop(heap) ==
    IF Len(heap) = 1 THEN [heap |-> <<>>, ok |-> TRUE]
    ELSE PrioritySiftUp([SubSeq(heap, 1, Len(heap) - 1) EXCEPT ![1] = heap[Len(heap)]], 1, 1)

\* PriorityProcessingQueue.put_nowait: creates the handle, then calls
\* super().put_nowait(self, (priority, args, kwargs, fut)): ProcessingQueue's
\* put_nowait takes the two as the arguments of a call, creates a future of its
\* own (unless _no_futs) and pushes its tuple.  asyncio.Queue.put_nowait counts
\* the item after _put, so not when the push raised.
PutPriorityNowait(priority, bad) ==
    /\ pq_kind = "priority"
    /\ Len(pq_subs) < MaxItems
    /\ StartWorkers
    /\ LET sub == Len(pq_subs) + 1
           handle == Len(pq_futs) + 1
           item == [args |-> [sub |-> sub, bad |-> bad, wrapped |-> TRUE,
                              priority |-> priority, shape |-> "put_nowait"],
                    fut |-> IF pq_no_futs THEN 0 ELSE handle + 1]
           r == PriorityPut(pq_queue, item)
       IN /\ pq_futs' = pq_futs \o (IF pq_no_futs THEN <<"pending">>
                                    ELSE <<"pending", "pending">>)
          /\ pq_smart' = pq_smart \o (IF pq_no_futs THEN <<FALSE>> ELSE <<FALSE, FALSE>>)
          /\ pq_queue' = r.heap
          /\ pq_unfinished' = IF r.ok THEN pq_unfinished + 1 ELSE pq_unfinished
          /\ pq_subs' = Append(pq_subs,
                               [args |-> [sub |-> sub, bad |-> bad, wrapped |-> FALSE],
                                handle |-> IF r.ok THEN handle ELSE 0,
                                error |-> IF r.ok THEN "none" ELSE "TypeError"])
    /\ NotQueue
    /\ UNCHANGED <<pq_kind, pq_no_futs, pq_num_workers, pq_cur, pq_outcome, pq_calls,
                   SmartFuture_waiters, caller_pc, caller_fut>>

\* PriorityProcessingQueue.put: creates the handle and awaits super().put(self,
\* (priority, args, kwargs, fut)): ProcessingQueue.put creates a future (unless
\* _no_futs) and awaits asyncio.Queue.put(item), which ends with
\* self.put_nowait(item): PriorityProcessingQueue.put_nowait with the item as
\* the priority, which creates a future and goes through ProcessingQueue's
\* put_nowait as above.
PutPriority(priority, bad) ==
    /\ pq_kind = "priority"
    /\ Len(pq_subs) < MaxItems
    /\ StartWorkers
    /\ LET sub == Len(pq_subs) + 1
           handle == Len(pq_futs) + 1
           created == IF pq_no_futs THEN 2 ELSE 4
           item == [args |-> [sub |-> sub, bad |-> bad, wrapped |-> TRUE,
                              priority |-> priority, shape |-> "put"],
                    fut |-> IF pq_no_futs THEN 0 ELSE handle + 3]
           r == PriorityPut(pq_queue, item)
       IN /\ pq_futs' = pq_futs \o [i \in 1..created |-> "pending"]
          /\ pq_smart' = pq_smart \o [i \in 1..created |-> FALSE]
          /\ pq_queue' = r.heap
          /\ pq_unfinished' = IF r.ok THEN pq_unfinished + 1 ELSE pq_unfinished
          /\ pq_subs' = Append(pq_subs,
                               [args |-> [sub |-> sub, bad |-> bad, wrapped |-> FALSE],
                                handle |-> IF r.ok THEN handle ELSE 0,
                                error |-> IF r.ok THEN "none" ELSE "TypeError"])
    /\ NotQueue
    /\ UNCHANGED <<pq_kind, pq_no_futs, pq_num_workers, pq_cur, pq_outcome, pq_calls,
                   SmartFuture_waiters, caller_pc, caller_fut>>

\* ProcessingQueue._worker_coro on a PriorityProcessingQueue: await self.get()
\* calls PriorityProcessingQueue._get, which pops the heap and unpacks four
\* values from a tuple of three (or two): ValueError, or the TypeError of the
\* pop.  func is not called.  With _no_futs the error is logged and task_done()
\* follows, which raises ValueError when nothing is counted as unfinished;
\* otherwise the except clause finds fut unbound and raises out of the loop.
PriorityWorkerGet(w) ==
    /\ pq_kind = "priority"
    /\ pq_worker[w] = "get"
    /\ pq_queue # <<>>
    /\ pq_queue' = PriorityPop(pq_queue).heap
    /\ IF pq_no_futs /\ pq_unfinished > 0
       THEN /\ pq_unfinished' = pq_unfinished - 1
            /\ UNCHANGED pq_worker
       ELSE /\ pq_worker' = [pq_worker EXCEPT ![w] = "dead"]
            /\ UNCHANGED pq_unfinished
    /\ NotQueue
    /\ UNCHANGED <<pq_kind, pq_no_futs, pq_num_workers, pq_started, pq_futs, pq_smart,
                   pq_cur, pq_outcome, pq_subs, pq_calls, SmartFuture_waiters,
                   caller_pc, caller_fut>>

PriorityNext ==
    \/ \E p \in ItemPriorities, bad \in BOOLEAN : PutPriorityNowait(p, bad)
    \/ \E p \in ItemPriorities, bad \in BOOLEAN : PutPriority(p, bad)
    \/ \E w \in Workers : PriorityWorkerGet(w)
    \/ \E f \in 1..Len(pq_futs) : CancelHandle(f)

(***************************************************************************)
(* TaskMapping                                                             *)
(***************************************************************************)
\* The input sequence of map(): every key once, in order
MapInput == [i \in 1..NumKeys |-> i]

NoMap ==
    [active |-> FALSE, kind |-> "none", input |-> <<>>, pending |-> {}, pop |-> FALSE,
     yielded |-> <<>>, taken |-> {}]

\* No synchronous read made yet
NoRead == [read |-> FALSE, items |-> <<>>, handle |-> <<>>, order |-> <<>>]

\* No ordered iteration in flight
NoIter ==
    [active |-> FALSE, mode |-> "none", reverse |-> FALSE, start |-> <<>>,
     todo |-> <<>>, yielded |-> <<>>]

TmInit ==
    /\ tv_read = NoRead
    /\ tv_iter = NoIter
    /\ tm_handle = [k \in Keys |-> 0]
    /\ tm_order = <<>>
    /\ tm_handles = <<>>
    /\ tm_returned = [k \in Keys |-> {}]
    /\ tm_map = NoMap
    /\ tm_caller = [c \in Callers |-> "idle"]

\* How often the function has been invoked for key k: once per handle created
Invocations(k) == Cardinality({h \in 1..Len(tm_handles) : tm_handles[h].key = k})

\* __getitem__: the handle mapping[k] returns: the cached one, or a new one
Lookup(k) == IF tm_handle[k] # 0 THEN tm_handle[k] ELSE Len(tm_handles) + 1

\* __getitem__ without the look at the cache: every access makes a new handle
CacheAnew(k) ==
    /\ tm_handle' = [tm_handle EXCEPT ![k] = Len(tm_handles) + 1]
    /\ tm_order' = IF tm_handle[k] # 0 THEN tm_order ELSE Append(tm_order, k)
    /\ tm_handles' = Append(tm_handles, [key |-> k, state |-> "running", rank |-> 0])

\* __getitem__: a key without entry gets a new handle, function(key, **kwargs)
\* scheduled, cached under the key; a key with an entry changes nothing
Cache(k) ==
    /\ tm_handle' = [tm_handle EXCEPT ![k] = Lookup(k)]
    /\ tm_order' = IF tm_handle[k] # 0 THEN tm_order ELSE Append(tm_order, k)
    /\ tm_handles' = IF tm_handle[k] # 0 THEN tm_handles
                     ELSE Append(tm_handles, [key |-> k, state |-> "running", rank |-> 0])

\* mapping[k]
TmGetItem(k) ==
    /\ tm_handle[k] = 0 => Len(tm_handles) < MaxHandles
    /\ Cache(k)
    /\ tm_returned' = [tm_returned EXCEPT ![k] = @ \cup {Lookup(k)}]
    /\ NotMapping
    /\ UNCHANGED <<tm_map, tm_caller>>

\* mapping.pop(k): the entry is removed
TmPop(k) ==
    /\ tm_handle[k] # 0
    /\ tm_handle' = [tm_handle EXCEPT ![k] = 0]
    /\ tm_order' = SelectSeq(tm_order, LAMBDA x : x # k)
    /\ NotMapping
    /\ UNCHANGED <<tm_handles, tm_returned, tm_map, tm_caller>>

\* How many computations have completed or failed
Settlements == Cardinality({h \in 1..Len(tm_handles) : tm_handles[h].state # "running"})

\* The computation of a handle completes
TmComplete(h) ==
    /\ tm_handles[h].state = "running"
    /\ tm_handles' = [tm_handles EXCEPT ![h].state = "done", ![h].rank = Settlements + 1]
    /\ NotMapping
    /\ UNCHANGED <<tm_handle, tm_order, tm_returned, tm_map, tm_caller>>

\* The computation of a handle fails: the error is captured in the handle
TmFail(h) ==
    /\ tm_handles[h].state = "running"
    /\ tm_handles' = [tm_handles EXCEPT ![h].state = "failed", ![h].rank = Settlements + 1]
    /\ NotMapping
    /\ UNCHANGED <<tm_handle, tm_order, tm_returned, tm_map, tm_caller>>

\* await mapping[k] on an entry whose computation is over: the caller gets the
\* value, or the error of the computation is raised to it
TmAwait(c, k) ==
    /\ tm_caller[c] = "idle"
    /\ tm_handle[k] # 0
    /\ tm_handles[tm_handle[k]].state # "running"
    /\ tm_caller' = [tm_caller EXCEPT ![c] =
                        IF tm_handles[tm_handle[k]].state = "failed" THEN "raised"
                        ELSE "returned"]
    /\ tm_returned' = [tm_returned EXCEPT ![k] = @ \cup {tm_handle[k]}]
    /\ NotMapping
    /\ UNCHANGED <<tm_handle, tm_order, tm_handles, tm_map>>

\* The keys of the input the mapping was constructed over that have no entry
Missing == SelectSeq(MapInput, LAMBDA k : tm_handle[k] = 0)

\* gather() that creates the handle of the first key only
TmGatherFirst ==
    /\ Missing # <<>>
    /\ Len(tm_handles) < MaxHandles
    /\ tm_handles' = Append(tm_handles, [key |-> Missing[1], state |-> "running", rank |-> 0])
    /\ tm_handle' = [tm_handle EXCEPT ![Missing[1]] = Len(tm_handles) + 1]
    /\ tm_order' = Append(tm_order, Missing[1])
    /\ NotMapping
    /\ UNCHANGED <<tm_returned, tm_map, tm_caller>>

\* gather(), as the synchronous views need it: every key of the input gets its
\* handle, created now if it has none, in the order of the input; no completion
\* is waited for
TmGather ==
    /\ Missing # <<>>
    /\ Len(tm_handles) + Len(Missing) <= MaxHandles
    /\ tm_handles' = tm_handles \o
                        [i \in 1..Len(Missing) |->
                            [key |-> Missing[i], state |-> "running", rank |-> 0]]
    /\ tm_handle' = [k \in Keys |->
                        IF tm_handle[k] # 0 THEN tm_handle[k]
                        ELSE Len(tm_handles) + FirstIndex(k, Missing)]
    /\ tm_order' = tm_order \o Missing
    /\ NotMapping
    /\ UNCHANGED <<tm_returned, tm_map, tm_caller>>

\* What a synchronous iteration of items() gives: the entries, in insertion order
ViewItems == [i \in 1..Len(tm_order) |-> <<tm_order[i], tm_handle[tm_order[i]]>>]

\* keys() / values() / items() read synchronously: the entries as they are now
TmViewRead ==
    /\ tv_read' = [read |-> TRUE, items |-> ViewItems, handle |-> tm_handle,
                    order |-> tm_order]
    /\ tv_read' # tv_read
    /\ NotViews
    /\ UNCHANGED <<tm_vars, tv_iter>>

\* list(reversed(seq))
Reversed(seq) == [i \in 1..Len(seq) |-> seq[Len(seq) + 1 - i]]

\* aiterbykeys(reverse) that does not look at reverse
TmOrderedStartForward(c, mode, reverse) ==
    /\ tm_caller[c] = "idle"
    /\ ~tv_iter.active
    /\ mode = "await" => ~reverse
    /\ tv_iter' = [active |-> TRUE, mode |-> mode, reverse |-> reverse,
                    start |-> ViewItems, todo |-> ViewItems, yielded |-> <<>>]
    /\ tm_caller' = [tm_caller EXCEPT ![c] = "ordered"]
    /\ NotViews
    /\ UNCHANGED <<tm_handle, tm_order, tm_handles, tm_returned, tm_map, tv_read>>

\* await view (mode "await": the entries there are now are gathered) or
\* view.aiterbykeys(reverse) (mode "iter"): the entries there are now, in
\* insertion order, or in the reverse of it
TmOrderedStart(c, mode, reverse) ==
    /\ tm_caller[c] = "idle"
    /\ ~tv_iter.active
    /\ mode = "await" => ~reverse
    /\ tv_iter' = [active |-> TRUE, mode |-> mode, reverse |-> reverse,
                    start |-> ViewItems,
                    todo |-> IF reverse THEN Reversed(ViewItems) ELSE ViewItems,
                    yielded |-> <<>>]
    /\ tm_caller' = [tm_caller EXCEPT ![c] = "ordered"]
    /\ NotViews
    /\ UNCHANGED <<tm_handle, tm_order, tm_handles, tm_returned, tm_map, tv_read>>

\* The ordered iteration takes its next entry once the computation is over.  A
\* failed computation ends the gathering of await view with its error, raised to
\* the caller; the iteration hands the entry over and goes on.
TmOrderedYield(c) ==
    /\ tm_caller[c] = "ordered"
    /\ tv_iter.active /\ tv_iter.todo # <<>>
    /\ LET h == Head(tv_iter.todo)[2]
       IN /\ tm_handles[h].state # "running"
          /\ IF tm_handles[h].state = "failed" /\ tv_iter.mode = "await"
             THEN /\ tv_iter' = [tv_iter EXCEPT !.active = FALSE]
                  /\ tm_caller' = [tm_caller EXCEPT ![c] = "raised"]
             ELSE /\ tv_iter' = [tv_iter EXCEPT !.todo = Tail(@),
                                                 !.yielded = Append(@, Head(tv_iter.todo))]
                  /\ UNCHANGED tm_caller
    /\ NotViews
    /\ UNCHANGED <<tm_handle, tm_order, tm_handles, tm_returned, tm_map, tv_read>>

\* The ordered iteration has taken every entry it started with
TmOrderedExhaust(c) ==
    /\ tm_caller[c] = "ordered"
    /\ tv_iter.active /\ tv_iter.todo = <<>>
    /\ tv_iter' = [tv_iter EXCEPT !.active = FALSE]
    /\ tm_caller' = [tm_caller EXCEPT ![c] = "ordered done"]
    /\ NotViews
    /\ UNCHANGED <<tm_handle, tm_order, tm_handles, tm_returned, tm_map, tv_read>>

\* map() without the guard: a second map() replaces the one in flight
TmMapStartUnguarded(c, pop) ==
    /\ tm_caller[c] = "idle"
    /\ tm_caller' = [tm_caller EXCEPT ![c] = "mapping"]
    /\ ~(tm_map.active /\ tm_map.kind = "view")
    /\ tm_map' = [active |-> TRUE, kind |-> "map", input |-> MapInput, pending |-> {},
                  pop |-> pop, yielded |-> <<>>, taken |-> {}]
    /\ NotMapping
    /\ UNCHANGED <<tm_handle, tm_order, tm_handles, tm_returned>>

\* map(iterable, pop): a second map() while one is in flight fails with a
\* state error at once; otherwise the map is in flight
TmMapStart(c, pop) ==
    /\ tm_caller[c] = "idle"
    /\ ~(tm_map.active /\ tm_map.kind = "view")
    /\ IF tm_map.active
       THEN /\ tm_caller' = [tm_caller EXCEPT ![c] = "RuntimeError"]
            /\ UNCHANGED tm_map
       ELSE /\ tm_caller' = [tm_caller EXCEPT ![c] = "mapping"]
            /\ tm_map' = [active |-> TRUE, kind |-> "map", input |-> MapInput,
                          pending |-> {}, pop |-> pop, yielded |-> <<>>, taken |-> {}]
    /\ NotMapping
    /\ UNCHANGED <<tm_handle, tm_order, tm_handles, tm_returned>>

\* map(): the next key of the input gets its handle, created or retrieved
TmMapFeed ==
    /\ tm_map.active /\ tm_map.input # <<>>
    /\ LET k == Head(tm_map.input)
       IN /\ tm_handle[k] = 0 => Len(tm_handles) < MaxHandles
          /\ Cache(k)
          /\ tm_map' = [tm_map EXCEPT !.input = Tail(@), !.pending = @ \cup {Lookup(k)}]
    /\ NotMapping
    /\ UNCHANGED <<tm_returned, tm_caller>>

\* The handles of the iteration whose computation is over
Ready == {g \in tm_map.pending : tm_handles[g].state # "running"}

\* The iteration yields a completed handle without any change of the mapping
TmMapYieldKeep(h) ==
    /\ tm_map.active /\ h \in Ready
    /\ \A g \in Ready : tm_handles[h].rank <= tm_handles[g].rank
    /\ tm_map' = [tm_map EXCEPT !.pending = @ \ {h},
                                !.yielded = Append(@, tm_handles[h].key),
                                !.taken = @ \cup {h}]
    /\ NotMapping
    /\ UNCHANGED <<tm_handle, tm_order, tm_handles, tm_returned, tm_caller>>

\* The iteration yields whichever of its handles is over, in no order
TmMapYieldAnyOrder(h) ==
    /\ tm_map.active /\ h \in Ready
    /\ tm_map' = [tm_map EXCEPT !.pending = @ \ {h},
                                !.yielded = Append(@, tm_handles[h].key),
                                !.taken = @ \cup {h}]
    /\ LET k == tm_handles[h].key
       IN IF tm_map.pop /\ tm_handle[k] # 0
          THEN /\ tm_handle' = [tm_handle EXCEPT ![k] = 0]
               /\ tm_order' = SelectSeq(tm_order, LAMBDA x : x # k)
          ELSE UNCHANGED <<tm_handle, tm_order>>
    /\ NotMapping
    /\ UNCHANGED <<tm_handles, tm_returned, tm_caller>>

\* The iteration ends with the error of a failed computation, raised to the
\* caller that iterates
TmMapYieldAbort(h) ==
    /\ tm_map.active /\ h \in Ready
    /\ \A g \in Ready : tm_handles[h].rank <= tm_handles[g].rank
    /\ IF tm_handles[h].state = "failed"
       THEN /\ tm_map' = [tm_map EXCEPT !.active = FALSE]
            /\ tm_caller' = [c \in Callers |->
                                IF tm_caller[c] \in {"mapping", "viewing"} THEN "raised"
                                ELSE tm_caller[c]]
       ELSE /\ tm_map' = [tm_map EXCEPT !.pending = @ \ {h},
                                        !.yielded = Append(@, tm_handles[h].key),
                                        !.taken = @ \cup {h}]
            /\ UNCHANGED tm_caller
    /\ LET k == tm_handles[h].key
       IN IF tm_map.pop /\ tm_handle[k] # 0 /\ tm_handles[h].state # "failed"
          THEN /\ tm_handle' = [tm_handle EXCEPT ![k] = 0]
               /\ tm_order' = SelectSeq(tm_order, LAMBDA x : x # k)
          ELSE UNCHANGED <<tm_handle, tm_order>>
    /\ NotMapping
    /\ UNCHANGED <<tm_handles, tm_returned>>

\* map() or the asynchronous iteration of a view: of the handles of the
\* iteration whose computation is over, completed or failed, the one that was
\* over first is yielded, and with pop the entry of its key leaves the mapping;
\* a failure stays in the handle
TmMapYield(h) ==
    /\ tm_map.active /\ h \in Ready
    /\ \A g \in Ready : tm_handles[h].rank <= tm_handles[g].rank
    /\ tm_map' = [tm_map EXCEPT !.pending = @ \ {h},
                                !.yielded = Append(@, tm_handles[h].key),
                                !.taken = @ \cup {h}]
    /\ LET k == tm_handles[h].key
       IN IF tm_map.pop /\ tm_handle[k] # 0
          THEN /\ tm_handle' = [tm_handle EXCEPT ![k] = 0]
               /\ tm_order' = SelectSeq(tm_order, LAMBDA x : x # k)
          ELSE UNCHANGED <<tm_handle, tm_order>>
    /\ NotMapping
    /\ UNCHANGED <<tm_handles, tm_returned, tm_caller>>

\* map(): the input is consumed and every handle yielded: the map is exhausted
TmMapExhaust(c) ==
    /\ tm_caller[c] = "mapping"
    /\ tm_map.active /\ tm_map.input = <<>> /\ tm_map.pending = {}
    /\ tm_map' = [tm_map EXCEPT !.active = FALSE]
    /\ tm_caller' = [tm_caller EXCEPT ![c] = "exhausted"]
    /\ NotMapping
    /\ UNCHANGED <<tm_handle, tm_order, tm_handles, tm_returned>>

\* keys() / values() / items() with pop, iterated asynchronously: the iteration
\* is over the entries cached when it starts (one iteration at a time here)
TmViewStart(c, pop) ==
    /\ tm_caller[c] = "idle"
    /\ ~tm_map.active
    /\ tm_map' = [active |-> TRUE, kind |-> "view", input |-> <<>>,
                  pending |-> {tm_handle[k] : k \in Range(tm_order)},
                  pop |-> pop, yielded |-> <<>>, taken |-> {}]
    /\ tm_caller' = [tm_caller EXCEPT ![c] = "viewing"]
    /\ NotMapping
    /\ UNCHANGED <<tm_handle, tm_order, tm_handles, tm_returned>>

\* the iteration of the view has yielded every entry it started with
TmViewExhaust(c) ==
    /\ tm_caller[c] = "viewing"
    /\ tm_map.active /\ tm_map.pending = {}
    /\ tm_map' = [tm_map EXCEPT !.active = FALSE]
    /\ tm_caller' = [tm_caller EXCEPT ![c] = "viewed"]
    /\ NotMapping
    /\ UNCHANGED <<tm_handle, tm_order, tm_handles, tm_returned>>

TmNext ==
    \/ \E k \in Keys : TmGetItem(k)
    \/ \E k \in Keys : TmPop(k)
    \/ \E h \in 1..MaxHandles : h <= Len(tm_handles) /\ TmComplete(h)
    \/ \E c \in Callers, pop \in BOOLEAN : TmMapStart(c, pop)
    \/ TmMapFeed
    \/ \E h \in 1..MaxHandles : TmMapYield(h)
    \/ \E c \in Callers : TmMapExhaust(c)

\* The operations of the mapping with the iteration of views
PopNext ==
    \/ TmNext
    \/ \E c \in Callers, pop \in BOOLEAN : TmViewStart(c, pop)
    \/ \E c \in Callers : TmViewExhaust(c)

\* The mapping constructed over an input, gathered and read synchronously
SyncViewNext ==
    \/ \E k \in Keys : TmGetItem(k)
    \/ \E k \in Keys : TmPop(k)
    \/ \E h \in 1..MaxHandles : h <= Len(tm_handles) /\ TmComplete(h)
    \/ TmGather
    \/ TmViewRead

\* The mapping with its views awaited and iterated in the order of insertion
OrderedNext ==
    \/ \E k \in Keys : TmGetItem(k)
    \/ \E k \in Keys : TmPop(k)
    \/ \E h \in 1..MaxHandles : h <= Len(tm_handles) /\ TmComplete(h)
    \/ \E c \in Callers, mode \in {"await", "iter"}, reverse \in BOOLEAN :
          TmOrderedStart(c, mode, reverse)
    \/ \E c \in Callers : TmOrderedYield(c)
    \/ \E c \in Callers : TmOrderedExhaust(c)

\* The mapping with computations that fail, iterated, gathered and awaited
ErrorNext ==
    \/ \E k \in Keys : TmGetItem(k)
    \/ \E h \in 1..MaxHandles : h <= Len(tm_handles) /\ TmComplete(h)
    \/ \E h \in 1..MaxHandles : h <= Len(tm_handles) /\ TmFail(h)
    \/ \E c \in Callers, k \in Keys : TmAwait(c, k)
    \/ \E c \in Callers, pop \in BOOLEAN : TmMapStart(c, pop)
    \/ TmMapFeed
    \/ \E h \in 1..MaxHandles : TmMapYield(h)
    \/ \E c \in Callers : TmMapExhaust(c)
    \/ \E c \in Callers, pop \in BOOLEAN : TmViewStart(c, pop)
    \/ \E c \in Callers : TmViewExhaust(c)
    \/ \E c \in Callers : TmOrderedStart(c, "await", FALSE)
    \/ \E c \in Callers : TmOrderedYield(c)
    \/ \E c \in Callers : TmOrderedExhaust(c)

(***************************************************************************)
(* Queue: get_all, get_multi, get_multi_nowait                             *)
(***************************************************************************)
QInit ==
    /\ q_queue = <<>>
    /\ q_unfinished = 0
    /\ q_puts = 0
    /\ q_taken = 0
    /\ q_op = "none"
    /\ q_pc = "idle"
    /\ q_n = 0
    /\ q_crl = FALSE
    /\ q_result = <<>>
    /\ q_error = "none"
    /\ q_suspended = FALSE

\* The arguments as Python sees them: an int, a bool (an int too, worth 0 or 1),
\* or a value of another type
ArgInt(n) == [type |-> "int", value |-> n]

ArgBool(b) == [type |-> "bool", value |-> IF b THEN 1 ELSE 0]

ArgOther == [type |-> "other", value |-> 0]

\* _validate_args that lets i = 1 through
ValidateTypedFromOne(a, b) ==
    IF a.type \notin {"int", "bool"} THEN "TypeError"
    ELSE IF b.type # "bool" THEN "TypeError"
    ELSE IF a.value < 1 THEN "ValueError"
    ELSE "none"

\* _validate_args: isinstance(i, int), isinstance(can_return_less, bool), i <= 1
ValidateTyped(a, b) ==
    IF a.type \notin {"int", "bool"} THEN "TypeError"
    ELSE IF b.type # "bool" THEN "TypeError"
    ELSE IF a.value <= 1 THEN "ValueError"
    ELSE "none"

\* _validate_args: the error it raises for i (an int) and can_return_less (a bool)
ValidateArgs(i, can_return_less) == ValidateTyped(ArgInt(i), ArgBool(can_return_less))

\* get_all_nowait without "if not values: raise": an empty list is returned
GetAllNowaitMayBeEmpty(queue) ==
    [queue |-> <<>>, result |-> queue, error |-> "none"]

\* get_all_nowait: get_nowait until QueueEmpty; QueueEmpty when nothing was got
GetAllNowait(queue) ==
    IF queue = <<>> THEN [queue |-> queue, result |-> <<>>, error |-> "QueueEmpty"]
    ELSE [queue |-> <<>>, result |-> queue, error |-> "none"]

\* get_multi_nowait without the loop that puts the items back
GetMultiNowaitNoPutBack(queue, i, can_return_less) ==
    IF ValidateArgs(i, can_return_less) # "none"
    THEN [queue |-> queue, result |-> <<>>, error |-> ValidateArgs(i, can_return_less), reput |-> 0]
    ELSE IF Len(queue) >= i
    THEN [queue |-> SubSeq(queue, i + 1, Len(queue)), result |-> SubSeq(queue, 1, i),
          error |-> "none", reput |-> 0]
    ELSE IF queue # <<>> /\ can_return_less
    THEN [queue |-> <<>>, result |-> queue, error |-> "none", reput |-> 0]
    ELSE [queue |-> <<>>, result |-> <<>>, error |-> "QueueEmpty", reput |-> 0]

\* get_multi_nowait: up to i times get_nowait; on QueueEmpty the items got are
\* returned (can_return_less) or put back with put_nowait, which counts each
\* as a new unfinished task
GetMultiNowait(queue, i, can_return_less) ==
    IF ValidateArgs(i, can_return_less) # "none"
    THEN [queue |-> queue, result |-> <<>>, error |-> ValidateArgs(i, can_return_less), reput |-> 0]
    ELSE IF Len(queue) >= i
    THEN [queue |-> SubSeq(queue, i + 1, Len(queue)), result |-> SubSeq(queue, 1, i),
          error |-> "none", reput |-> 0]
    ELSE IF queue # <<>> /\ can_return_less
    THEN [queue |-> <<>>, result |-> queue, error |-> "none", reput |-> 0]
    ELSE LET items == queue
             drained == SubSeq(queue, Len(queue) + 1, Len(queue))
         IN [queue |-> drained \o items, result |-> <<>>, error |-> "QueueEmpty",
             reput |-> Len(items)]

RECURSIVE GetMultiLoop(_, _, _, _)
\* get_multi, the while loop from a given list of items, up to the next await
\* self.get() on an empty queue, the return or the error
GetMultiLoop(queue, items, i, can_return_less) ==
    IF ~(Len(items) < i /\ ~can_return_less)
    THEN [queue |-> queue, pc |-> "returned", result |-> items, error |-> "none"]
    ELSE LET r == GetMultiNowait(queue, i - Len(items), TRUE)
         IN IF r.error = "QueueEmpty"
            THEN [queue |-> r.queue, pc |-> "waiting", result |-> <<>>, error |-> "none"]
            ELSE IF r.error # "none"
            THEN [queue |-> r.queue, pc |-> "failed", result |-> <<>>, error |-> r.error]
            ELSE GetMultiLoop(r.queue, items \o r.result, i, can_return_less)

\* get_multi up to its first await, return or error
GetMulti(queue, i, can_return_less) ==
    IF ValidateArgs(i, can_return_less) # "none"
    THEN [queue |-> queue, pc |-> "failed", result |-> <<>>,
          error |-> ValidateArgs(i, can_return_less)]
    ELSE GetMultiLoop(queue, <<>>, i, can_return_less)

\* put_nowait by a producer: the item is queued and counted, and the getter
\* suspended in get is woken
QPut ==
    /\ q_puts < MaxPuts
    /\ q_puts' = q_puts + 1
    /\ q_queue' = Append(q_queue, q_puts + 1)
    /\ q_unfinished' = q_unfinished + 1
    /\ q_pc' = IF q_pc = "waiting" THEN "woken" ELSE q_pc
    /\ NotPlain
    /\ UNCHANGED <<q_taken, q_op, q_n, q_crl, q_result, q_error, q_suspended>>

\* get_nowait by another consumer
QGetNowait ==
    /\ q_queue # <<>>
    /\ q_queue' = Tail(q_queue)
    /\ q_taken' = q_taken + 1
    /\ NotPlain
    /\ UNCHANGED <<q_unfinished, q_puts, q_op, q_pc, q_n, q_crl, q_result, q_error, q_suspended>>

\* queue.get_multi_nowait(i, can_return_less)
GetMultiNowaitCall(i, can_return_less) ==
    /\ q_pc = "idle"
    /\ LET r == GetMultiNowait(q_queue, i, can_return_less)
       IN /\ q_queue' = r.queue
          /\ q_unfinished' = q_unfinished + r.reput
          /\ q_result' = r.result
          /\ q_error' = r.error
          /\ q_pc' = IF r.error = "none" THEN "returned" ELSE "failed"
    /\ q_op' = "get_multi_nowait"
    /\ q_n' = i
    /\ q_crl' = can_return_less
    /\ NotPlain
    /\ UNCHANGED <<q_puts, q_taken, q_suspended>>

\* await queue.get_multi(i, can_return_less), up to the first await
GetMultiCall(i, can_return_less) ==
    /\ q_pc = "idle"
    /\ LET r == GetMulti(q_queue, i, can_return_less)
       IN /\ q_queue' = r.queue
          /\ q_result' = r.result
          /\ q_error' = r.error
          /\ q_pc' = r.pc
          /\ q_suspended' = (r.pc = "waiting")
    /\ q_op' = "get_multi"
    /\ q_n' = i
    /\ q_crl' = can_return_less
    /\ NotPlain
    /\ UNCHANGED <<q_unfinished, q_puts, q_taken>>

\* await queue.get_all(), up to the await
GetAllCall ==
    /\ q_pc = "idle"
    /\ LET r == GetAllNowait(q_queue)
       IN /\ q_queue' = r.queue
          /\ q_result' = r.result
          /\ q_pc' = IF r.error = "QueueEmpty" THEN "waiting" ELSE "returned"
          /\ q_suspended' = (r.error = "QueueEmpty")
    /\ q_op' = "get_all"
    /\ NotPlain
    /\ UNCHANGED <<q_unfinished, q_puts, q_taken, q_n, q_crl, q_error>>

\* The consumer woken in get runs again: asyncio.Queue.get suspends again on an
\* empty queue, and otherwise returns get_nowait(); get_all returns the list of
\* that one item, get_multi starts its list again from it and goes on
QResume ==
    /\ q_pc = "woken"
    /\ IF q_queue = <<>>
       THEN /\ q_pc' = "waiting"
            /\ UNCHANGED <<q_queue, q_result, q_error>>
       ELSE IF q_op = "get_all"
       THEN /\ q_pc' = "returned"
            /\ q_result' = <<Head(q_queue)>>
            /\ q_queue' = Tail(q_queue)
            /\ UNCHANGED q_error
       ELSE LET r == GetMultiLoop(Tail(q_queue), <<Head(q_queue)>>, q_n, q_crl)
            IN /\ q_queue' = r.queue
               /\ q_result' = r.result
               /\ q_error' = r.error
               /\ q_pc' = r.pc
    /\ NotPlain
    /\ UNCHANGED <<q_unfinished, q_puts, q_taken, q_op, q_n, q_crl, q_suspended>>

\* The arguments that are not an int with a bool
IllTyped ==
    {<<a, b>> \in ({ArgInt(n) : n \in 0..MaxN} \cup {ArgBool(x) : x \in BOOLEAN} \cup {ArgOther})
                   \X ({ArgBool(x) : x \in BOOLEAN} \cup {ArgInt(1), ArgOther}) :
        a.type # "int" \/ b.type # "bool"}

\* get_multi or get_multi_nowait called with such arguments: _validate_args,
\* the first statement of both, decides; arguments it lets through reach the
\* body as the numbers they are worth
BulkFetchIllTyped(op, a, b) ==
    /\ q_pc = "idle"
    /\ IF ValidateTyped(a, b) # "none"
       THEN /\ q_pc' = "failed"
            /\ q_error' = ValidateTyped(a, b)
            /\ q_op' = op
            /\ q_n' = a.value
            /\ NotPlain
            /\ UNCHANGED <<q_queue, q_unfinished, q_puts, q_taken, q_crl, q_result,
                           q_suspended>>
       ELSE IF op = "get_multi"
       THEN GetMultiCall(a.value, b.value # 0)
       ELSE GetMultiNowaitCall(a.value, b.value # 0)

PlainNext ==
    \/ QPut
    \/ QGetNowait
    \/ \E i \in 0..MaxN, can_return_less \in BOOLEAN : GetMultiNowaitCall(i, can_return_less)
    \/ \E i \in 0..MaxN, can_return_less \in BOOLEAN : GetMultiCall(i, can_return_less)
    \/ \E op \in {"get_multi", "get_multi_nowait"}, ab \in IllTyped :
          BulkFetchIllTyped(op, ab[1], ab[2])
    \/ GetAllCall
    \/ QResume

(***************************************************************************)
(* Specifications: one per primitive; the other primitives stay as built.  *)
(***************************************************************************)
SemIdle == SemInit /\ sem_capacity = 1

PqIdle == PqInit("fifo") /\ pq_no_futs = FALSE /\ pq_num_workers = 1

Init == SemInit /\ PqIdle /\ TmInit /\ QInit

Next == SemNext

Spec == Init /\ [][Next]_vars

\* The semaphore with the event loop running every callback it has scheduled
SemFairSpec ==
    /\ Init /\ [][Next]_vars
    /\ WF_vars(\E t \in Tasks : ResumeTake(t) \/ ResumeWaitAgain(t) \/ ResumeCancelled(t))

NumericInit == SemInitOver({Resolve(a) : a \in NumericArgs}) /\ PqIdle /\ TmInit /\ QInit

NumericSpec == NumericInit /\ [][NumericNext]_vars

QueueInit == SemIdle /\ PqInit("fifo") /\ TmInit /\ QInit

QueueSpec == QueueInit /\ [][QueueNext]_vars

\* The event loop runs every worker that can run; every call of func returns.
QueueFairSpec ==
    /\ QueueSpec
    /\ \A w \in Workers : WF_vars(WorkerGet(w))
    /\ \A w \in Workers : WF_vars(WorkerFinish(w))

SmartInit == SemIdle /\ PqInit("smart") /\ TmInit /\ QInit

SmartSpec == SmartInit /\ [][SmartNext]_vars

PriorityInit == SemIdle /\ PqInit("priority") /\ TmInit /\ QInit

PrioritySpec == PriorityInit /\ [][PriorityNext]_vars

MappingInit == SemIdle /\ PqIdle /\ TmInit /\ QInit

MappingSpec == MappingInit /\ [][TmNext]_vars

PopSpec == MappingInit /\ [][PopNext]_vars

SyncViewSpec == MappingInit /\ [][SyncViewNext]_vars

OrderedSpec == MappingInit /\ [][OrderedNext]_vars

ErrorSpec == MappingInit /\ [][ErrorNext]_vars

PlainInit == SemIdle /\ PqIdle /\ TmInit /\ QInit

PlainSpec == PlainInit /\ [][PlainNext]_vars

(***************************************************************************)
(* Claims about the work queues                                            *)
(***************************************************************************)
\* C5: worker error capture.  When func raises for an item that has a result
\* future, the worker resolves that future with the error, marks the item done
\* and goes back to dequeue the next item.
WorkerErrorCapture ==
    [][\A w \in Workers :
          (/\ pq_worker[w] = "run" /\ pq_outcome[w] = "raise" /\ pq_cur[w].fut # 0
           /\ pq_worker'[w] # "run")
          => /\ pq_futs'[pq_cur[w].fut] = "error"
             /\ pq_unfinished' = pq_unfinished - 1
             /\ pq_worker'[w] = "get"]_vars

\* The calls of func made with exactly the arguments of submission n
CallsOf(n) == {k \in 1..Len(pq_calls) : pq_calls[k] = pq_subs[n].args}

\* C6: eventual resolution.  On a queue that returns results, with the workers
\* scheduled fairly and func always returning, every submission (put or
\* put_nowait) is eventually executed, exactly once, and the handle its
\* submitter got is eventually done.
EventualResolution ==
    \A n \in 1..MaxItems :
        [](( ~pq_no_futs /\ Len(pq_subs) >= n)
             => <>(/\ ~pq_no_futs /\ Len(pq_subs) >= n
                   /\ pq_futs[pq_subs[n].handle] # "pending"
                   /\ Cardinality(CallsOf(n)) = 1))

\* The callers suspended in await on a future
Awaiters(fut) ==
    Cardinality({c \in Callers : caller_pc[c] = "awaiting" /\ caller_fut[c] = fut})

\* C10: demand ordering.  Whenever a worker of the smart queue dequeues, no item
\* left in the queue has more callers awaiting its handle than the item taken.
DemandOrdering ==
    [][\A w \in Workers :
          (pq_worker[w] = "get" /\ pq_worker'[w] = "run")
          => \A it \in Range(pq_queue) : Awaiters(it.fut) <= Awaiters(pq_cur'[w].fut)]_vars

\* C13: worker pool size.  Once the workers are started, exactly num_workers
\* worker loops are running (waiting in get or executing an item), whatever
\* happened to the items and their handles.
WorkerPoolSize ==
    pq_started
    => Cardinality({w \in Workers : pq_worker[w] \in {"get", "run"}}) = pq_num_workers

\* C14: a caller that awaited the handle of a submission, the handle not
\* cancelled, got the error raised at it when func raised for the submission,
\* and the return value when func returned.
AwaitOutcomeFaithful ==
    \A c \in Callers :
        (/\ caller_pc[c] \notin {"idle", "awaiting", "cancelled"}
         /\ pq_futs[caller_fut[c]] # "cancelled")
        => \E n \in 1..Len(pq_subs) :
              /\ pq_subs[n].handle = caller_fut[c]
              /\ caller_pc[c] = IF pq_subs[n].args.bad THEN "raised error"
                                ELSE "returned value"

\* C15: per-handle waiter count.  The waiter count of a SmartFuture is the
\* number of callers suspended awaiting that future.
PerHandleWaiterCount ==
    \A fut \in Handles : pq_smart[fut] => NumWaiters(fut) = Awaiters(fut)

\* C21: the plain work queue is FIFO.  The calls of func are made in the order
\* of the submissions, whatever the number of workers: the n-th call is for the
\* n-th item submitted, so an item submitted earlier never starts later.
FifoExecution ==
    \A i \in 1..Len(pq_calls) : pq_calls[i].sub = i

\* C21 witness: two workers run the first two items at once and a third item,
\* submitted last, is still queued
FifoExecutionWitness ==
    /\ pq_num_workers = 2
    /\ \A w \in Workers : pq_worker[w] = "run"
    /\ Len(pq_calls) = 2 /\ Len(pq_queue) = 1 /\ Len(pq_subs) = 3

\* C22: the priority work queue.  A step that takes an item off the queue takes
\* one whose priority value no pending item is below, and calls func with the
\* arguments that item was submitted with.
PriorityService ==
    [][Len(pq_queue') < Len(pq_queue)
       => \E i \in 1..Len(pq_queue) :
             /\ \A j \in 1..Len(pq_queue) :
                   pq_queue[i].args.priority <= pq_queue[j].args.priority
             /\ pq_calls' = Append(pq_calls, pq_subs[pq_queue[i].args.sub].args)]_vars

\* C35: put and put_nowait of the demand-ordered queue are equivalent
\* submissions.  Whichever made it, a submission started the workers, its handle
\* tracks demand (a SmartFuture), and while the handle is pending its item is on
\* the queue or with a worker.
SubmissionsEquivalent ==
    \A i \in 1..Len(pq_subs) :
        LET h == pq_subs[i].handle
        IN /\ pq_started
           /\ pq_smart[h]
           /\ pq_futs[h] = "pending"
                 => \/ \E j \in 1..Len(pq_queue) : pq_queue[j].fut = h
                    \/ \E w \in Workers : pq_worker[w] = "run" /\ pq_cur[w].fut = h

\* ProcessingQueue.__del__: what discarding the queue reports to the loop's
\* exception handler; it raises nothing
DelReport == IF pq_unfinished > 0 THEN "work pending" ELSE "none"

\* The items submitted that no worker has finished: queued, or with a worker
\* that is running func on them
WorkLeft == Len(pq_queue) + Cardinality({w \in Workers : pq_worker[w] = "run"})

\* C37: pending-work accounting.  The pending count is the number of items
\* submitted that no worker has finished yet, and discarding the queue reports
\* 'work pending' exactly when there are such items.
PendingAccounting ==
    /\ pq_unfinished = WorkLeft
    /\ DelReport = "work pending" <=> WorkLeft > 0

ConcurrentMapRejected ==
    /\ [](Cardinality({c \in Callers : tm_caller[c] = "mapping"}) <= 1)
    /\ [][\A c \in Callers :
             (tm_caller[c] = "mapping" /\ tm_caller'[c] = "exhausted")
             => /\ Len(tm_map.yielded) = NumKeys
                /\ Range(tm_map.yielded) = Keys]_vars
    /\ [][\A c \in Callers :
             (tm_map.active /\ tm_caller[c] = "idle" /\ tm_caller'[c] # "idle")
             => /\ tm_caller'[c] = "RuntimeError"
                /\ UNCHANGED <<tm_handle, tm_order, tm_handles, tm_map>>]_vars

\* C9 witness: one caller's map() was rejected and the other's is exhausted,
\* having yielded every key
ConcurrentMapWitness ==
    \E c \in Callers, d \in Callers :
        /\ tm_caller[c] = "exhausted" /\ tm_caller[d] = "RuntimeError"
        /\ ~tm_map.active /\ Range(tm_map.yielded) = Keys

\* C16: pop semantics.  A yield of an iteration (map() or view) with pop removes
\* the entry of the key yielded and no other; a step of an iteration without pop
\* removes and replaces no entry; when an iteration with pop is exhausted no
\* handle it yielded is still cached, and the mapping is empty when every
\* handle ever created was yielded by it.
PopSemantics ==
    /\ [][(tm_map.active /\ tm_map.pop /\ Len(tm_map'.yielded) = Len(tm_map.yielded) + 1)
          => LET k == tm_map'.yielded[Len(tm_map'.yielded)]
             IN /\ tm_handle'[k] = 0
                /\ ~InSeq(k, tm_order')
                /\ \A j \in Keys \ {k} : tm_handle'[j] = tm_handle[j]]_vars
    /\ [][(tm_map.active /\ ~tm_map.pop /\ tm_map' # tm_map)
          => \A k \in Keys : tm_handle[k] # 0 => tm_handle'[k] = tm_handle[k]]_vars
    /\ [][(tm_map.active /\ ~tm_map'.active /\ tm_map.pop)
          => /\ \A k \in Keys : tm_handle'[k] \notin tm_map.taken
             /\ Cardinality(tm_map.taken) = Len(tm_handles) => tm_order' = <<>>]_vars

\* C16 witness: a map() without pop is exhausted and left its entries cached;
\* the iteration of a view with pop then yielded them all and is exhausted, and
\* the mapping is empty
PopSemanticsWitness ==
    \E c \in Callers, d \in Callers :
        /\ tm_caller[c] = "exhausted" /\ tm_caller[d] = "viewed"
        /\ ~tm_map.active /\ tm_map.kind = "view" /\ tm_map.pop
        /\ Cardinality(tm_map.taken) = NumKeys
        /\ tm_order = <<>>

\* The keys a read returned, and whether it has each once with its handle
ReadKeys == {tv_read.items[i][1] : i \in 1..Len(tv_read.items)}

InsertionOrderViews ==
    [][\A c \in Callers :
          (tm_caller[c] = "ordered" /\ tm_caller'[c] = "ordered done")
          => /\ tv_iter.yielded = IF tv_iter.reverse THEN Reversed(tv_iter.start)
                                  ELSE tv_iter.start
             /\ \A i \in 1..Len(tv_iter.start), j \in 1..Len(tv_iter.start) :
                   tv_iter.start[i][1] = tv_iter.start[j][1] => i = j]_vars

\* C24 witness: a reversed iteration over two entries has ended
InsertionOrderViewsWitness ==
    /\ \E c \in Callers : tm_caller[c] = "ordered done"
    /\ ~tv_iter.active /\ tv_iter.reverse
    /\ Len(tv_iter.yielded) = 2 /\ tv_iter.todo = <<>>

\* C25: completion-order iteration.  Every yield of the asynchronous iteration of
\* a view is of an entry whose computation is over, not yielded before, and
\* over later than every entry yielded before it; when the iteration ends no
\* key has been yielded twice and nothing it started with is left.
CompletionOrder ==
    /\ [][(tm_map.active /\ tm_map.kind = "view" /\ tm_map'.yielded # tm_map.yielded)
            => \E h \in tm_map.pending :
                  /\ tm_handles[h].state # "running"
                  /\ tm_map'.taken = tm_map.taken \cup {h} /\ h \notin tm_map.taken
                  /\ tm_map'.yielded = Append(tm_map.yielded, tm_handles[h].key)
                  /\ \A g \in tm_map.taken : tm_handles[g].rank < tm_handles[h].rank]_vars
    /\ [][\A c \in Callers :
             (tm_caller[c] = "viewing" /\ tm_caller'[c] = "viewed")
             => /\ tm_map.pending = {}
                /\ Len(tm_map.yielded) = Cardinality(tm_map.taken)
                /\ \A i \in 1..Len(tm_map.yielded), j \in 1..Len(tm_map.yielded) :
                      tm_map.yielded[i] = tm_map.yielded[j] => i = j]_vars

\* C25 witness: an iteration has ended that yielded the entry created second
\* before the entry created first, as they completed
CompletionOrderWitness ==
    /\ \E c \in Callers : tm_caller[c] = "viewed"
    /\ ~tm_map.active /\ tm_map.kind = "view"
    /\ \E g \in tm_map.taken, h \in tm_map.taken :
          /\ g < h /\ tm_handles[h].rank < tm_handles[g].rank
          /\ tm_map.yielded = <<tm_handles[h].key, tm_handles[g].key>>

\* C26: error isolation.  A computation that fails changes its handle only; a
\* caller iterating the mapping is never ended by it and has, when its iteration
\* ends, been yielded every key of the iteration; an error is raised only to a
\* caller that awaits the failed key or gathers the view that holds it.
ErrorIsolation ==
    /\ [][(\E h \in 1..Len(tm_handles) :
              tm_handles[h].state = "running" /\ tm_handles'[h].state = "failed")
            => UNCHANGED <<tm_caller, tm_map, tv_iter, tm_handle, tm_order>>]_vars
    /\ [][\A c \in Callers :
             tm_caller[c] \in {"mapping", "viewing"}
             => tm_caller'[c] \in {tm_caller[c], "exhausted", "viewed"}]_vars
    /\ [][\A c \in Callers :
             (tm_caller[c] \in {"mapping", "viewing"} /\ tm_caller'[c] # tm_caller[c])
             => /\ tm_map.pending = {}
                /\ tm_map.kind = "map" => Range(tm_map.yielded) = Range(MapInput)]_vars
    /\ [][\A c \in Callers :
             (tm_caller'[c] = "raised" /\ tm_caller[c] # "raised")
             => \/ /\ tm_caller[c] = "idle"
                   /\ \E k \in Keys : /\ tm_handle[k] # 0
                                      /\ tm_handles[tm_handle[k]].state = "failed"
                                      /\ tm_returned'[k] = tm_returned[k] \cup {tm_handle[k]}
                \/ /\ tm_caller[c] = "ordered" /\ tv_iter.mode = "await"
                   /\ tm_handles[Head(tv_iter.todo)[2]].state = "failed"]_vars

\* C26 witness: one computation failed and one completed, an iteration was
\* yielded both keys and ended, and the error was raised to another caller
ErrorIsolationWitness ==
    /\ \E c \in Callers, d \in Callers :
          tm_caller[c] \in {"exhausted", "viewed"} /\ tm_caller[d] = "raised"
    /\ Len(tm_map.yielded) = 2
    /\ \E g \in tm_map.taken, h \in tm_map.taken :
          tm_handles[g].state = "failed" /\ tm_handles[h].state = "done"

(***************************************************************************)
(* Claims about Queue                                                      *)
(***************************************************************************)
\* C11: get_multi(n) with n >= 2 and can_return_less false never fails, and
\* when no other consumer took an item it returns exactly the first n items put.
GetMultiExact ==
    (q_op = "get_multi" /\ q_n >= 2 /\ ~q_crl)
    => /\ q_pc # "failed"
       /\ (q_pc = "returned" /\ q_taken = 0) => q_result = [k \in 1..q_n |-> k]

\* C12, as claimed (any n): get_multi_nowait(n) with can_return_less false on
\* fewer than n items fails with QueueEmpty and leaves the queue as it was; on
\* at least n items it returns the first n and leaves the rest.
GetMultiNowaitRollbackAnyN ==
    [][(q_pc = "idle" /\ q_op' = "get_multi_nowait" /\ ~q_crl' /\ q_error' # "TypeError")
       => IF Len(q_queue) < q_n'
          THEN q_pc' = "failed" /\ q_error' = "QueueEmpty" /\ q_queue' = q_queue
          ELSE /\ q_pc' = "returned"
               /\ q_result' = SubSeq(q_queue, 1, q_n')
               /\ q_queue' = SubSeq(q_queue, q_n' + 1, Len(q_queue))]_vars

\* C12, amended: the same for n >= 2, the values of n that _validate_args
\* accepts; for n <= 1 the call fails with ValueError and the queue is as it was.
GetMultiNowaitRollback ==
    [][(q_pc = "idle" /\ q_op' = "get_multi_nowait" /\ ~q_crl' /\ q_error' # "TypeError")
       => IF q_n' <= 1
          THEN q_pc' = "failed" /\ q_error' = "ValueError" /\ q_queue' = q_queue
          ELSE IF Len(q_queue) < q_n'
          THEN q_pc' = "failed" /\ q_error' = "QueueEmpty" /\ q_queue' = q_queue
          ELSE /\ q_pc' = "returned"
               /\ q_result' = SubSeq(q_queue, 1, q_n')
               /\ q_queue' = SubSeq(q_queue, q_n' + 1, Len(q_queue))]_vars

\* C12 witness: get_multi_nowait failed with QueueEmpty on a queue that held
\* items, which it put back (each put back counted as unfinished once more)
GetMultiNowaitRollbackWitness ==
    /\ q_op = "get_multi_nowait" /\ ~q_crl /\ q_error = "QueueEmpty"
    /\ Len(q_queue) = 2 /\ q_n = 3
    /\ q_unfinished = q_puts + 2

\* C20: get_all never returns an empty list; on a non-empty queue it returns
\* every queued item in order at once and leaves the queue empty; on an empty
\* queue it suspends, and when it runs again with an item queued it returns
\* exactly the oldest item queued.
GetAllNonEmpty ==
    /\ []((q_op = "get_all" /\ q_pc = "returned") => q_result # <<>>)
    /\ [][(q_pc = "idle" /\ q_op' = "get_all")
          => IF q_queue # <<>>
             THEN q_pc' = "returned" /\ q_result' = q_queue /\ q_queue' = <<>>
             ELSE q_pc' = "waiting" /\ q_queue' = q_queue]_vars
    /\ [][(q_op = "get_all" /\ q_pc # "returned" /\ q_pc' = "returned" /\ q_pc # "idle")
          => /\ q_queue # <<>>
             /\ q_result' = <<Head(q_queue)>>
             /\ q_queue' = Tail(q_queue)]_vars

\* C20 witness: get_all suspended on the empty queue and returned one item,
\* while a second item put before it ran again stays queued
GetAllNonEmptyWitness ==
    /\ q_op = "get_all" /\ q_pc = "returned" /\ q_suspended
    /\ Len(q_result) = 1 /\ q_queue # <<>>

\* C28: usage errors of bulk fetch.  get_multi and get_multi_nowait called with
\* n < 2, or with an n that is no integer or a can_return_less that is no
\* boolean, fail with ValueError or TypeError at the call and leave the queue
\* and its count of unfinished items as they were.
BulkFetchUsageError ==
    /\ [][(q_pc = "idle" /\ q_op' \in {"get_multi", "get_multi_nowait"} /\ q_n' < 2)
            => /\ q_pc' = "failed" /\ q_error' \in {"ValueError", "TypeError"}
               /\ q_result' = <<>>
               /\ UNCHANGED <<q_queue, q_unfinished>>]_vars
    /\ [][\A op \in {"get_multi", "get_multi_nowait"}, ab \in IllTyped :
             BulkFetchIllTyped(op, ab[1], ab[2])
             => /\ q_pc' = "failed" /\ q_error' \in {"ValueError", "TypeError"}
                /\ UNCHANGED <<q_queue, q_unfinished, q_result>>]_vars

\* C28 witness: get_multi(1) has failed with ValueError on a queue that holds
\* two items or more
BulkFetchUsageErrorWitness ==
    /\ q_pc = "failed" /\ q_error = "ValueError"
    /\ q_op = "get_multi" /\ q_n = 1
    /\ Len(q_queue) >= 2 /\ ~q_suspended

\* C30: bulk fetches lose no item.  Once the fetch call is over, every item put
\* is in the queue, in the list the fetch returned, or was taken by the other
\* consumer's get.
NoItemLost ==
    q_pc \in {"idle", "returned", "failed"}
        => Len(q_queue) + Len(q_result) + q_taken = q_puts
====
